---- MODULE Spec2Model ----
(***************************************************************************)
(* A model of mcproxy, a security proxy for JSON-RPC 2.0 over WebSocket.   *)
(*                                                                         *)
(*  - ApiKeyVault, called directly                        : SpecVault     *)
(*  - Sanitizer with its ApiKeyDetector and ApiKeyVault    : SpecSan       *)
(*  - MCPProxyServer with ClientHandler and ServerHandler  : SpecProxy     *)
(*                                                                         *)
(* Strings are sequences of atoms (one-character strings).  null is the    *)
(* one-atom sequence Null, which no string of the model equals.            *)
(***************************************************************************)
EXTENDS Integers, Sequences, FiniteSets, TLC

\* ------------------------------------------------------------------ bounds

\* The connections that clients open to the proxy (SpecProxy).
MaxConnectionAttempts == 2

\* The clock (Date.now(), in seconds) runs from 0 to MaxTime.
MaxTime == 2

\* The 'message' events of one client socket that are emitted before the
\* promise jobs of their handlers run (frames that arrived together).
MaxBatch == 2

\* A string leaf of a message is made of at most MaxSegments pieces.
MaxSegments == 3

\* A Sanitizer sanitizes at most MaxMessages messages in a behaviour.
MaxMessages == 2

\* The longest string given to a filter, in code units.
MaxFilterLen == 3

\* The most calls made on one PatternMatcher.
MaxFilterCalls == 2

\* The most calls of checkLimit on one RateLimiter.
MaxChecks == 3

\* The longest input of the detector alone, in atoms.
MaxDetectLen == 5

\* ------------------------------------------------ configuration constants

\* VaultConfig.ttl, in seconds.
Ttl == 1

\* VaultConfig.maxKeysPerConnection.
MaxKeysPerConnection == 2

\* Lengths and thresholds of the detector, scaled to the atoms of the model:
\* the 48 characters after sk-, the 20 or more after Bearer, minimumKeyLength
\* (20), and the entropy (3.5 bits) below which an openai match is dropped.
OpenaiBodyLen == 2
BearerMinLen == 3
MinimumKeyLength == 3
OpenaiEntropyThreshold == 1

\* The same scale for the patterns without a prefix: the 32 characters of
\* azure_key and datadog_api_key, the 40 of aws_secret_key and datadog_app_key,
\* and the entropy thresholds of isFalsePositive (3.0, 2.5 and the default 3.0
\* of the names with generic or potential).
AzureKeyLen == 4
DatadogApiLen == 4
DatadogAppLen == 5
AwsSecretLen == 5
AwsSecretEntropyThreshold == 1
DatadogEntropyThreshold == 1
DefaultEntropyThreshold == 1

\* maxReconnectAttempts (5 in the source) and max_queue_size || 100, scaled.
MaxReconnectAttempts == 2
MaxQueueSize == 2

\* reconnectDelay, in seconds.
ReconnectDelay == 1

\* ------------------------------------------------------------------ values

Null == <<"null">>

ConnectionIds == {"conn-1", "conn-2"}

\* The 32 hex characters of a placeholder, one atom per value: the values
\* randomBytes(16) yields in one behaviour, in the order it yields them.
HexBlocks == <<"h1", "h2", "h3">>

\* `MCPROXY_KEY_${randomBytes(16).toString('hex').toUpperCase()}`
PlaceholderOf(i) == <<"M", HexBlocks[i]>>

Placeholders == {PlaceholderOf(i) : i \in 1..Len(HexBlocks)}

\* Secrets handed to the vault directly (the vault stores any string).
Key1 == <<"s", "a", "1">>
Key2 == <<"s", "b", "1">>
Key3 == <<"s", "A", "1">>
VaultKeys == {Key1, Key2, Key3}

\* ------------------------------------------------------------------- state

VARIABLES
  config,            \* VaultConfig: [enabled, encryption]
  vault,             \* Map<placeholder, StoredKey>
  keyToPlaceholder,  \* Map<apiKey, placeholder>
  connectionKeys,    \* Map<connectionId, Set<placeholder>>
  cleanupInterval,   \* the 60 s sweep timer is armed
  now,               \* Date.now()
  minted,            \* history: placeholder -> the connectionId it was minted for
  last,              \* history: the last vault call, its arguments and its result
  san,               \* SpecSan: the last sanitizeMessage / resubstituteApiKeys call
  flt,               \* SpecFilter: the last call of a filter
  cli,               \* SpecCli: the command line and the configuration files
  proxyConfig,       \* the config object: api_key_protection?.enabled, proxy?.auto_reconnect,
                     \* sanitization?.strict_mode, sanitization?.patterns?.enabled,
                     \* proxy?.max_connections, rate_limiting
  conns,             \* SpecProxy: connectionId -> its ClientHandler and ServerHandler
  connections,       \* SpecProxy: the keys of MCPProxyServer.connections
  connectionCounter, \* SpecProxy: MCPProxyServer.connectionCounter
  stopped,           \* SpecProxy: stop() was called
  lastOut            \* SpecProxy history: what the last handler took in and put out

vaultVars == <<config, vault, keyToPlaceholder, connectionKeys, cleanupInterval,
               now, minted, last>>

proxyVars == <<proxyConfig, conns, connections, connectionCounter, stopped, lastOut>>

vars == <<vaultVars, san, flt, cli, proxyVars>>

\* config.sanitization?.strict_mode
StrictMode == proxyConfig.strictMode

\* Mutant of MaxConnections: the default is used whatever is configured.
MaxConnections_Default == 100

\* config.proxy?.max_connections || 100
MaxConnections == proxyConfig.maxConnections

\* ----------------------------------------------------------------- JS maps

EmptyMap == <<>>

MapHas(m, k) == k \in DOMAIN m

MapSet(m, k, v) == [x \in (DOMAIN m) \cup {k} |-> IF x = k THEN v ELSE m[x]]

MapDelete(m, k) == [x \in (DOMAIN m) \ {k} |-> m[x]]

\* `const name = value; ...`: In applied to the value, which is computed once.
Let(value, In(_)) == In(value)

\* ------------------------------------------------------------- ApiKeyVault

\* The vault object: its three maps.
VaultObj(v, k2p, ck) == [vault |-> v, keyToPlaceholder |-> k2p, connectionKeys |-> ck]

EmptyVault == VaultObj(EmptyMap, EmptyMap, EmptyMap)

\* aes-256-gcm under the process key: ciphertext and tag, as 'hex:tag'.
Encrypt(apiKey) == <<"gcm">> \o apiKey

\* Decryption verifies the tag; a string that is no ciphertext fails.
CanDecrypt(encryptedKey) == Len(encryptedKey) >= 1 /\ Head(encryptedKey) = "gcm"

Decrypt(encryptedKey) == Tail(encryptedKey)

\* The plaintext a stored record stands for.
PlainOf(stored) ==
  IF stored.iv # <<>> THEN Decrypt(stored.encryptedKey) ELSE stored.encryptedKey

\* Mutant of Expired: the TTL check is missing.
Expired_Never(stored, t) == FALSE

\* age > ttl, with age = (Date.now() - createdAt) / 1000
Expired(stored, t) == Ttl > 0 /\ (t - stored.createdAt) > Ttl

\* Mutant of OwnedBy: the ownership check is missing.
OwnedBy_Anyone(stored, connectionId) == TRUE

\* stored.connectionId !== connectionId is the refusal of retrieveKey.
OwnedBy(stored, connectionId) == stored.connectionId = connectionId

\* Mutant of ExistingPlaceholder: the reverse lookup never hits.
ExistingPlaceholder_Never(V, apiKey) == Null

\* The lookup at the head of storeKey: the placeholder already standing for
\* apiKey, when its record is still in the vault; else Null.
ExistingPlaceholder(V, apiKey) ==
  IF MapHas(V.keyToPlaceholder, apiKey) /\ MapHas(V.vault, V.keyToPlaceholder[apiKey])
  THEN V.keyToPlaceholder[apiKey]
  ELSE Null

\* removeKey(placeholder)
RemoveKey(V, placeholder) ==
  IF ~MapHas(V.vault, placeholder) THEN V
  ELSE
    LET stored == V.vault[placeholder]
        owner  == stored.connectionId
        ck1 == IF MapHas(V.connectionKeys, owner)
               THEN LET s == V.connectionKeys[owner] \ {placeholder}
                    IN  IF s = {} THEN MapDelete(V.connectionKeys, owner)
                        ELSE MapSet(V.connectionKeys, owner, s)
               ELSE V.connectionKeys
        hits == {k \in DOMAIN V.keyToPlaceholder : V.keyToPlaceholder[k] = placeholder}
        k2p1 == IF config.encryption /\ hits # {}
                THEN MapDelete(V.keyToPlaceholder, CHOOSE k \in hits : TRUE)
                ELSE V.keyToPlaceholder
    IN  VaultObj(MapDelete(V.vault, placeholder), k2p1, ck1)

\* The loop of removeConnectionKeys / cleanupExpiredKeys: removeKey on each.
RECURSIVE RemoveKeys(_, _)
RemoveKeys(V, S) ==
  IF S = {} THEN V
  ELSE LET p == CHOOSE x \in S : TRUE
       IN  RemoveKeys(RemoveKey(V, p), S \ {p})

\* Mutant of RemoveConnectionKeys: only the per-connection index is dropped.
RemoveConnectionKeys_IndexOnly(V, connectionId) ==
  VaultObj(V.vault, V.keyToPlaceholder, MapDelete(V.connectionKeys, connectionId))

\* removeConnectionKeys(connectionId)
RemoveConnectionKeys(V, connectionId) ==
  IF ~MapHas(V.connectionKeys, connectionId) THEN V
  ELSE LET V1 == RemoveKeys(V, V.connectionKeys[connectionId])
       IN  VaultObj(V1.vault, V1.keyToPlaceholder,
                    MapDelete(V1.connectionKeys, connectionId))

\* cleanupExpiredKeys()
CleanupExpiredKeys(V, t) ==
  RemoveKeys(V, {p \in DOMAIN V.vault : Expired(V.vault[p], t)})

\* A StoredKey record carries placeholder, encryptedKey, iv, createdAt,
\* connectionId and keyType.  The source's lastAccessed field is written by
\* storeKey and retrieveKey and read by nothing, so the records leave it out.

\* storeKey(apiKey, connectionId, keyType), with `fresh` the random placeholder.
\* Returns the vault, the returned string, whether it threw, whether it minted.
StoreKey(V, apiKey, connectionId, keyType, t, fresh) ==
  IF ~config.enabled
  THEN [V |-> V, ret |-> apiKey, threw |-> FALSE, minted |-> FALSE]
  ELSE
    LET existing == ExistingPlaceholder(V, apiKey)
        connectionKeySet == IF MapHas(V.connectionKeys, connectionId)
                            THEN V.connectionKeys[connectionId] ELSE {}
    IN
    IF existing # Null
    THEN [V |-> V, ret |-> existing, threw |-> FALSE, minted |-> FALSE]
    ELSE IF Cardinality(connectionKeySet) >= MaxKeysPerConnection
    THEN [V |-> V, ret |-> Null, threw |-> TRUE, minted |-> FALSE]
    ELSE
      LET storedKey == [placeholder  |-> fresh,
                        encryptedKey |-> IF config.encryption THEN Encrypt(apiKey)
                                         ELSE apiKey,
                        iv           |-> IF config.encryption THEN <<"iv">> ELSE <<>>,
                        createdAt    |-> t,
                        connectionId |-> connectionId,
                        keyType      |-> keyType]
      IN [V |-> VaultObj(MapSet(V.vault, fresh, storedKey),
                         MapSet(V.keyToPlaceholder, apiKey, fresh),
                         MapSet(V.connectionKeys, connectionId,
                                connectionKeySet \cup {fresh})),
          ret |-> fresh, threw |-> FALSE, minted |-> TRUE]

\* retrieveKey(placeholder, connectionId): the vault afterwards and the result.
RetrieveKey(V, placeholder, connectionId, t) ==
  IF ~config.enabled THEN [V |-> V, ret |-> placeholder]
  ELSE IF ~MapHas(V.vault, placeholder) THEN [V |-> V, ret |-> Null]
  ELSE
    LET stored == V.vault[placeholder] IN
    IF ~OwnedBy(stored, connectionId) THEN [V |-> V, ret |-> Null]
    ELSE IF Expired(stored, t) THEN [V |-> RemoveKey(V, placeholder), ret |-> Null]
    ELSE
      IF config.encryption /\ stored.iv # <<>>
      THEN IF CanDecrypt(stored.encryptedKey)
           THEN [V |-> V, ret |-> Decrypt(stored.encryptedKey)]
           ELSE [V |-> V, ret |-> Null]
      ELSE [V |-> V, ret |-> stored.encryptedKey]

\* isPlaceholder(value)
IsPlaceholder(V, value) ==
  /\ Len(value) >= 1
  /\ Head(value) = "M"
  /\ MapHas(V.vault, value)

\* shutdown()
Shutdown(V) == EmptyVault

\* ---------------------------------------------------------- strings, regexes

\* The atoms of message text.  Lengths are scaled: "s" stands for the prefix
\* sk-, "B" for the word Bearer, "M" for MCPROXY_KEY_ and an element of
\* HexBlocks for 32 hex digits, "t" for the word test and ".x" for the
\* extension .txt; every other atom is one character.
LowerAtoms == {"a", "b", "o", "t"}
UpperAtoms == {"A"}
DigitAtoms == {"1"}
SpaceAtoms == {" "}
HexAtoms == {HexBlocks[i] : i \in 1..Len(HexBlocks)}

\* [a-zA-Z0-9]
Alnum(ch) == ch \in LowerAtoms \cup UpperAtoms \cup DigitAtoms \cup HexAtoms \cup {"B"}

\* [A-Za-z0-9\-_\.]
BearerClass(ch) == Alnum(ch) \/ ch \in {"s", "M", ".x"}

\* [a-f0-9], [a-z0-9] and [a-zA-Z0-9/+=]
HexClass == {"a", "b"} \cup DigitAtoms
AzureClass == LowerAtoms \cup DigitAtoms
AwsSecretClass == LowerAtoms \cup UpperAtoms \cup DigitAtoms

\* \w at the first and at the last character of an atom ("sk-" ends with "-").
StartsWord(ch) == Alnum(ch) \/ ch \in {"s", "M"}
EndsWord(ch) == Alnum(ch) \/ ch \in {"M", ".x"}

\* \b before the atom at index i (1-based; i = Len + 1 is the end of input).
WordBoundary(input, i) ==
  LET left  == i > 1 /\ EndsWord(input[i - 1])
      right == i <= Len(input) /\ StartsWord(input[i])
  IN  left # right

\* The number of atoms from index i on that satisfy the class.
RECURSIVE RunLen(_, _, _)
RunLen(input, i, class) ==
  IF i > Len(input) \/ input[i] \notin class THEN 0
  ELSE 1 + RunLen(input, i + 1, class)

AllAtoms == LowerAtoms \cup UpperAtoms \cup DigitAtoms \cup SpaceAtoms \cup HexAtoms
              \cup {"s", "B", "M", ".x"}

\* input.substring(start) and input.substring(0, end), 0-based as in JS.
SubstringFrom(input, start) == SubSeq(input, start + 1, Len(input))
SubstringTo(input, end) == SubSeq(input, 1, IF end > Len(input) THEN Len(input) ELSE end)

\* ------------------------------------------------------------ ApiKeyDetector

\* The built-in patterns the model carries, in the order of getBuiltinPatterns.
PatternNames == <<"openai", "bearer_token">>

\* /\bsk-[a-zA-Z0-9]{48}\b/g at index i: the length of the match, or 0.
OpenaiMatchLen(input, i) ==
  IF /\ input[i] = "s"
     /\ WordBoundary(input, i)
     /\ i + OpenaiBodyLen <= Len(input)
     /\ \A j \in 1..OpenaiBodyLen : Alnum(input[i + j])
     /\ WordBoundary(input, i + OpenaiBodyLen + 1)
  THEN 1 + OpenaiBodyLen
  ELSE 0

\* /Bearer\s+[A-Za-z0-9\-_\.]{20,}/gi at index i: the length of the match, or 0.
BearerMatchLen(input, i) ==
  IF input[i] # "B" THEN 0
  ELSE LET ns == RunLen(input, i + 1, SpaceAtoms)
           nc == RunLen(input, i + 1 + ns, {ch \in AllAtoms : BearerClass(ch)})
       IN  IF ns >= 1 /\ nc >= BearerMinLen THEN 1 + ns + nc ELSE 0

\* /\b[class]{n}\b/g at index i: the length of the match, or 0.
BoundedRunLen(input, i, class, n) ==
  IF /\ i + n - 1 <= Len(input)
     /\ \A j \in 0..(n - 1) : input[i + j] \in class
     /\ WordBoundary(input, i)
     /\ WordBoundary(input, i + n)
  THEN n
  ELSE 0

\* The custom pattern of the detector's configuration, new RegExp(pattern,
\* 'g') with the pattern o[a-z0-9.]* and the name potential_key.
CustomMatchLen(input, i) ==
  IF input[i] # "o" THEN 0
  ELSE 1 + RunLen(input, i + 1, LowerAtoms \cup DigitAtoms \cup {".x"})

MatchLen(name, input, i) ==
  CASE name = "openai" -> OpenaiMatchLen(input, i)
    [] name = "aws_secret_key" -> BoundedRunLen(input, i, AwsSecretClass, AwsSecretLen)
    [] name = "azure_key" -> BoundedRunLen(input, i, AzureClass, AzureKeyLen)
    [] name = "bearer_token" -> BearerMatchLen(input, i)
    [] name = "datadog_api_key" -> BoundedRunLen(input, i, HexClass, DatadogApiLen)
    [] name = "datadog_app_key" -> BoundedRunLen(input, i, HexClass, DatadogAppLen)
    [] name = "potential_key" -> CustomMatchLen(input, i)

\* The loop `while ((match = pattern.exec(input)) !== null)`: the successive
\* matches of one pattern from index `from` on, as <<index (0-based), length>>.
RECURSIVE ExecAll(_, _, _)
ExecAll(name, input, from) ==
  LET starts == {i \in from..Len(input) : MatchLen(name, input, i) > 0} IN
  IF starts = {} THEN <<>>
  ELSE LET i == CHOOSE x \in starts : \A y \in starts : x <= y
           n == MatchLen(name, input, i)
       IN  <<[index |-> i - 1, length |-> n]>> \o ExecAll(name, input, i + n)

\* Product of c^c over the counts c of the distinct atoms of str.
RECURSIVE CountPowers(_, _)
CountPowers(str, chars) ==
  IF chars = {} THEN 1
  ELSE LET ch == CHOOSE x \in chars : TRUE
           c  == Cardinality({i \in 1..Len(str) : str[i] = ch})
       IN  (c ^ c) * CountPowers(str, chars \ {ch})

\* calculateEntropy(str) < threshold, for a threshold in whole bits:
\* -sum (c/n) log2 (c/n) < t  iff  n^n < 2^(t n) * prod c^c.
EntropyBelow(str, threshold) ==
  LET n == Len(str) IN
  (n ^ n) < (2 ^ (threshold * n)) * CountPowers(str, {str[i] : i \in 1..n})

\* One of falsePositivePatterns tests true: all digits, all upper case, all
\* lower case, a prefix test|demo|..., a file extension at the end.
FalsePositiveShape(key) ==
  \/ \A i \in 1..Len(key) : key[i] \in DigitAtoms
  \/ \A i \in 1..Len(key) : key[i] \in UpperAtoms
  \/ \A i \in 1..Len(key) : key[i] \in LowerAtoms
  \/ key[1] = "t"
  \/ key[Len(key)] = ".x"

\* hexBasedTypes and entropyThresholds, for the patterns the model carries.
HexBasedTypes == {"datadog_api_key", "datadog_app_key"}
EntropyThresholds ==
  [aws_secret_key |-> AwsSecretEntropyThreshold, openai |-> OpenaiEntropyThreshold,
   datadog_api_key |-> DatadogEntropyThreshold, datadog_app_key |-> DatadogEntropyThreshold]

\* type.includes('generic') || type.includes('potential')
GenericOrPotential(type) == type = "potential_key"

\* isFalsePositive(key, type).  The loop over falsePositivePatterns returns at
\* the first pattern that tests true: false for an aws_secret_key of the AWS
\* shape, true otherwise; the entropy tests are reached when no pattern tests
\* true or the type is hex-based.
IsFalsePositive(key, type) ==
  IF type \notin HexBasedTypes /\ FalsePositiveShape(key)
  THEN ~(/\ type = "aws_secret_key"
         /\ Len(key) = AwsSecretLen
         /\ \A i \in 1..Len(key) : key[i] \in AwsSecretClass)
  ELSE \/ type \in DOMAIN EntropyThresholds /\ EntropyBelow(key, EntropyThresholds[type])
       \/ GenericOrPotential(type) /\ EntropyBelow(key, DefaultEntropyThreshold)

\* The body of the exec loop: one match is skipped or appended to detectedKeys.
RECURSIVE AddMatches(_, _, _, _)
AddMatches(detectedKeys, name, input, matches) ==
  IF matches = <<>> THEN detectedKeys
  ELSE
    LET match == Head(matches)
        key == SubSeq(input, match.index + 1, match.index + match.length)
        skip == \/ \E j \in 1..Len(detectedKeys) : detectedKeys[j].value = key
                \/ Len(key) < MinimumKeyLength
                \/ IsFalsePositive(key, name)
        next == IF skip THEN detectedKeys
                ELSE Append(detectedKeys, [value |-> key, type |-> name,
                                           position |-> match.index,
                                           length |-> Len(key)])
    IN  AddMatches(next, name, input, Tail(matches))

RECURSIVE DetectWith(_, _, _)
DetectWith(detectedKeys, names, input) ==
  IF names = <<>> THEN detectedKeys
  ELSE DetectWith(AddMatches(detectedKeys, Head(names), input,
                             ExecAll(Head(names), input, 1)),
                  Tail(names), input)

\* detect(input).keys, with the detector enabled (config.enabled !== false).
Detect(input) == IF input = <<>> THEN <<>> ELSE DetectWith(<<>>, PatternNames, input)

\* The patterns of a detector with more of the built-in patterns, in the
\* order of getBuiltinPatterns, and the custom pattern after them.
DetectorPatterns ==
  <<"openai", "aws_secret_key", "azure_key", "bearer_token", "datadog_api_key",
    "datadog_app_key", "potential_key">>

\* detect(input).keys of that detector.
DetectAll(input) ==
  IF input = <<>> THEN <<>> ELSE DetectWith(<<>>, DetectorPatterns, input)

\* keys.sort((a, b) => b.position - a.position): by position, descending; the
\* sort is stable, so equal positions keep the order of detection.
RECURSIVE SortKeys(_)
SortKeys(keys) ==
  IF keys = <<>> THEN <<>>
  ELSE LET best == CHOOSE i \in 1..Len(keys) :
                     \A j \in 1..Len(keys) :
                       \/ keys[j].position < keys[i].position
                       \/ keys[j].position = keys[i].position /\ i <= j
           rest == [k \in 1..(Len(keys) - 1) |-> IF k < best THEN keys[k] ELSE keys[k + 1]]
       IN  <<keys[best]>> \o SortKeys(rest)

\* One round of the loop of replaceKeys: the placeholder is spliced in at the
\* position and over the length the key had in the input.
Splice(result, key, placeholder) ==
  SubstringTo(result, key.position) \o placeholder
    \o SubstringFrom(result, key.position + key.length)

\* ---------------------------------------------------------------- messages

\* A JSON value: a string, a number, an array of values, or an object, whose
\* entries keep the order of Object.entries.
Str(s) == [t |-> "str", v |-> s]
Num(n) == [t |-> "num", v |-> n]
Arr(items) == [t |-> "arr", v |-> items]
Obj(entries) == [t |-> "obj", v |-> entries]
Entry(key, value) == [k |-> key, v |-> value]

\* ---------------------------------------------------------------- Sanitizer

\* this.connectionId of a Sanitizer constructed without one.
Undefined == "undefined"

\* A Sanitizer: its connectionId, config.api_key_protection.enabled and the
\* lastIndex values of the RegExps of its PatternMatcher.  Its vault is passed
\* to the operators beside it.
SanitizerObj(connectionId, enabled, lastIndex) ==
  [connectionId |-> connectionId, apiKeyProtection |-> enabled, lastIndex |-> lastIndex]

\* randomBytes(16) for a vault in which the placeholders of m were drawn.
FreshFor(m) ==
  LET unused == {i \in 1..Len(HexBlocks) : PlaceholderOf(i) \notin DOMAIN m}
  IN  IF unused = {} THEN Null
      ELSE PlaceholderOf(CHOOSE i \in unused : \A j \in unused : i <= j)

\* What a run of sanitizer code carries along: the vault, the placeholders
\* drawn so far, whether storeKey threw, and whether the model ran out of
\* random values.
Ctx(V, m) == [V |-> V, minted |-> m, threw |-> FALSE, exhausted |-> FALSE]

\* replaceKeys' loop over sortedKeys, with the replacer of substituteApiKeys.
RECURSIVE ReplaceLoop(_, _, _, _, _, _)
ReplaceLoop(S, sortedKeys, result, modified, ctx, t) ==
  IF sortedKeys = <<>>
  THEN [message |-> result, modified |-> modified, ctx |-> ctx]
  ELSE IF S.connectionId = Undefined
  THEN ReplaceLoop(S, Tail(sortedKeys),
                   Splice(result, Head(sortedKeys), Head(sortedKeys).value),
                   modified, ctx, t)
  ELSE
    Let(StoreKey(ctx.V, Head(sortedKeys).value, S.connectionId, Head(sortedKeys).type,
                 t, FreshFor(ctx.minted)),
        LAMBDA r :
          IF r.threw
          THEN [message |-> result, modified |-> modified,
                ctx |-> [ctx EXCEPT !.threw = TRUE]]
          ELSE IF r.minted /\ r.ret = Null
          THEN [message |-> result, modified |-> modified,
                ctx |-> [ctx EXCEPT !.threw = TRUE, !.exhausted = TRUE]]
          ELSE ReplaceLoop(S, Tail(sortedKeys), Splice(result, Head(sortedKeys), r.ret),
                           TRUE,
                           [ctx EXCEPT !.V = r.V,
                                       !.minted = IF r.minted
                                                  THEN MapSet(@, r.ret, S.connectionId)
                                                  ELSE @],
                           t))

\* replaceKeys(input, replacer)
ReplaceKeys(S, input, ctx, t) ==
  Let(Detect(input),
      LAMBDA keys :
        IF keys = <<>> THEN [message |-> input, modified |-> FALSE, ctx |-> ctx]
        ELSE ReplaceLoop(S, SortKeys(keys), input, FALSE, ctx, t))

\* The values of an object's entries, and the object that the loop
\* `result[key] = value` over the entries builds from {}.  The assignment to
\* the key __proto__ calls the setter of Object.prototype, which adds no own
\* property to result.
EntryValues(entries) == [i \in 1..Len(entries) |-> entries[i].v]
WithValues(entries, values) ==
  SelectSeq([i \in 1..Len(entries) |-> Entry(entries[i].k, values[i])],
            LAMBDA e : e.k # "__proto__")

\* substituteApiKeys(obj); SubstituteItems is its loop over an array's items
\* or an object's values.  A throw of storeKey ends the run.
RECURSIVE SubstituteApiKeys(_, _, _, _)
RECURSIVE SubstituteItems(_, _, _, _)
SubstituteItems(S, items, ctx, t) ==
  IF items = <<>> \/ ctx.threw
  THEN [message |-> items, modified |-> FALSE, ctx |-> ctx]
  ELSE Let(SubstituteApiKeys(S, Head(items), ctx, t),
           LAMBDA first :
             Let(SubstituteItems(S, Tail(items), first.ctx, t),
                 LAMBDA rest :
                   [message |-> <<first.message>> \o rest.message,
                    modified |-> first.modified \/ rest.modified,
                    ctx |-> rest.ctx]))

SubstituteApiKeys(S, obj, ctx, t) ==
  IF obj.t = "str"
  THEN Let(ReplaceKeys(S, obj.v, ctx, t),
           LAMBDA r : [message |-> Str(r.message), modified |-> r.modified, ctx |-> r.ctx])
  ELSE IF obj.t = "arr"
  THEN Let(SubstituteItems(S, obj.v, ctx, t),
           LAMBDA r : [message |-> Arr(r.message), modified |-> r.modified, ctx |-> r.ctx])
  ELSE IF obj.t = "obj"
  THEN Let(SubstituteItems(S, EntryValues(obj.v), ctx, t),
           LAMBDA r : [message |-> Obj(WithValues(obj.v, r.message)),
                       modified |-> r.modified, ctx |-> r.ctx])
  ELSE [message |-> obj, modified |-> FALSE, ctx |-> ctx]

\* processApiKeys(obj, direction)
ProcessApiKeys(S, obj, direction, ctx, t) ==
  IF ~S.apiKeyProtection
  THEN [message |-> obj, modified |-> FALSE, ctx |-> ctx]
  ELSE IF direction = "client_to_server"
  THEN SubstituteApiKeys(S, obj, ctx, t)
  ELSE [message |-> obj, modified |-> FALSE, ctx |-> ctx]

\* ------------------------------------------------------------- AnsiFilter
\* A string is the sequence of its UTF-16 code units; an atom of the model
\* that is not named below stands for printable ASCII text.  "ESC" is 0x1B,
\* "BEL" 0x07, "x9b" 0x9B, "\\x1b" and "\\u001b" are the texts \x1b and
\* \u001b written out, "\\" is the backslash.

\* [0-9;] and [A-Za-z]
AnsiDigits == {"0", "1", "7", ";"}
AnsiLetters == {"m", "h", "l", "o", "A", "B", "H", "J", "P", "X"}

\* The code unit of s at i, "EOS" past its end.
UnitAt(s, i) == IF i \in 1..Len(s) THEN s[i] ELSE "EOS"

\* detectAnsi(input)
DetectAnsi(input) ==
  \E i \in 1..Len(input) :
    input[i] \in {"ESC", "\\x1b", "\\u001b"} /\ UnitAt(input, i + 1) = "["

\* The regexes of stripAnsi, in their order: a prefix of character classes,
\* then nothing more ("fixed"), [0-9;]* and one character of final ("csi"),
\* or the shortest text up to the terminator ("until").
AnsiPattern(kind, prefix, final, until) ==
  [kind |-> kind, prefix |-> prefix, final |-> final, until |-> until]

AnsiPatterns ==
  <<AnsiPattern("csi", <<{"ESC"}, {"["}>>, AnsiLetters, <<>>),
    AnsiPattern("until", <<{"ESC"}, {"]"}>>, {}, <<"BEL">>),
    AnsiPattern("until", <<{"ESC"}, {"P", "X", "^", "_"}>>, {}, <<"ESC", "\\">>),
    AnsiPattern("csi", <<{"ESC"}, {"["}>>, {"m"}, <<>>),
    AnsiPattern("fixed", <<{"ESC"}, {"("}, {"B"}>>, {}, <<>>),
    AnsiPattern("fixed", <<{"ESC"}, {")"}, {"0"}>>, {}, <<>>),
    AnsiPattern("fixed", <<{"ESC"}, {">", "="}>>, {}, <<>>),
    AnsiPattern("csi", <<{"ESC"}, {"["}, {"?"}>>, {"h", "l"}, <<>>),
    AnsiPattern("csi", <<{"ESC"}, {"["}, {"="}>>, {"h", "l"}, <<>>),
    AnsiPattern("csi", <<{"x9b"}>>, AnsiLetters, <<>>),
    AnsiPattern("fixed", <<{"ESC"}, {"7", "8"}>>, {}, <<>>),
    AnsiPattern("csi", <<{"ESC"}, {"["}>>, {"H", "f", "A", "B", "C", "D", "s", "u", "J", "K",
                                             "m", "G", "T"}, <<>>)>>

\* The first index from j on whose code unit is not in class.
RECURSIVE RunEnd(_, _, _)
RunEnd(s, j, class) == IF UnitAt(s, j) \in class THEN RunEnd(s, j + 1, class) ELSE j

\* The first index from j on at which term begins, 0 when there is none.
RECURSIVE FirstAt(_, _, _)
FirstAt(s, j, term) ==
  IF j + Len(term) - 1 > Len(s) THEN 0
  ELSE IF \A k \in 1..Len(term) : s[j + k - 1] = term[k] THEN j
  ELSE FirstAt(s, j + 1, term)

\* The length of the match of pattern p that begins at i, 0 when p does not
\* match there.
AnsiMatchLen(p, s, i) ==
  IF \E k \in 1..Len(p.prefix) : UnitAt(s, i + k - 1) \notin p.prefix[k] THEN 0
  ELSE IF p.kind = "fixed" THEN Len(p.prefix)
  ELSE IF p.kind = "csi"
  THEN Let(RunEnd(s, i + Len(p.prefix), AnsiDigits),
           LAMBDA j : IF UnitAt(s, j) \in p.final THEN j - i + 1 ELSE 0)
  ELSE Let(FirstAt(s, i + Len(p.prefix), p.until),
           LAMBDA j : IF j = 0 THEN 0 ELSE j + Len(p.until) - i)

\* result.replace(pattern, '') for a regex with the g flag, from index i on.
RECURSIVE ReplaceAll(_, _, _)
ReplaceAll(p, s, i) ==
  IF i > Len(s) THEN <<>>
  ELSE Let(AnsiMatchLen(p, s, i),
           LAMBDA n : IF n > 0 THEN ReplaceAll(p, s, i + n)
                      ELSE <<s[i]>> \o ReplaceAll(p, s, i + 1))

\* The loop of stripAnsi over its patterns, from the k-th on.
RECURSIVE StripPatterns(_, _)
StripPatterns(k, s) ==
  IF k > Len(AnsiPatterns) THEN s
  ELSE StripPatterns(k + 1, ReplaceAll(AnsiPatterns[k], s, 1))

\* stripAnsi(input): the patterns, then every ESC that is left.
StripAnsi(input) == SelectSeq(StripPatterns(1, input), LAMBDA u : u # "ESC")

\* encodeAnsi(input)
RECURSIVE EncodeAnsi(_)
EncodeAnsi(input) ==
  IF input = <<>> THEN <<>>
  ELSE <<IF Head(input) = "ESC" THEN "\\x1b" ELSE Head(input)>> \o EncodeAnsi(Tail(input))

\* AnsiFilterConfig
AnsiConfig(enabled, action) == [enabled |-> enabled, action |-> action]

\* AnsiFilter.filter(input); action "" is an action that is not configured.
AnsiFilterFilter(cfg, input) ==
  IF ~cfg.enabled THEN [filtered |-> input, violations |-> <<>>]
  ELSE IF ~DetectAnsi(input) THEN [filtered |-> input, violations |-> <<>>]
  ELSE IF cfg.action \in {"", "strip"}
  THEN [filtered |-> StripAnsi(input), violations |-> <<"ansi_sequences_removed">>]
  ELSE IF cfg.action = "reject"
  THEN [filtered |-> <<>>, violations |-> <<"ansi_sequences_rejected">>]
  ELSE IF cfg.action = "encode"
  THEN [filtered |-> EncodeAnsi(input), violations |-> <<"ansi_sequences_encoded">>]
  ELSE [filtered |-> input, violations |-> <<>>]

\* ----------------------------------------------------- CharacterWhitelist

\* charCodeAt of a code unit of the model; "D83C" "DF0D" is the surrogate
\* pair of U+1F30D.  Printable ASCII text counts as the letter o.
CharCode(u) ==
  CASE u = "NUL" -> 0
    [] u = "BEL" -> 7
    [] u = "ESC" -> 27
    [] u = "DEL" -> 127
    [] u = "x9b" -> 155
    [] u = "ZWSP" -> 8203
    [] u = "D83C" -> 55356
    [] u = "DF0D" -> 57101
    [] OTHER -> 111

\* CharWhitelistConfig: allowed_ranges and blacklist, <<>> when not given.
WhitelistConfig(enabled, ranges, blacklist) ==
  [enabled |-> enabled, allowed_ranges |-> ranges, blacklist |-> blacklist]

\* allowedChars.has(charCode), for the set that buildAllowedSet makes.
AllowedChar(cfg, charCode) ==
  /\ \E i \in 1..Len(IF cfg.allowed_ranges = <<>> THEN <<<<32, 126>>>>
                       ELSE cfg.allowed_ranges) :
       Let((IF cfg.allowed_ranges = <<>> THEN <<<<32, 126>>>> ELSE cfg.allowed_ranges)[i],
           LAMBDA range : Len(range) = 2 /\ range[1] <= charCode /\ charCode <= range[2])
  /\ \A i \in 1..Len(IF cfg.blacklist = <<>> THEN <<27, 127>> ELSE cfg.blacklist) :
       (IF cfg.blacklist = <<>> THEN <<27, 127>> ELSE cfg.blacklist)[i] # charCode

\* isZeroWidthChar, isControlChar
IsZeroWidthChar(charCode) ==
  charCode \in {8203, 8204, 8205, 65279, 8288, 6158} \cup (8192..8202)
IsControlChar(charCode) ==
  /\ charCode \notin {9, 10, 13}
  /\ (0 <= charCode /\ charCode <= 31) \/ (127 <= charCode /\ charCode <= 159)

\* The violation that the loop of filter records for a removed code unit.
RemovedKind(charCode) ==
  IF IsZeroWidthChar(charCode) THEN <<"zero_width_chars_removed">>
  ELSE IF IsControlChar(charCode) THEN <<"control_chars_removed">>
  ELSE IF charCode > 126 THEN <<"unicode_chars_removed">>
  ELSE <<>>

\* violations.push(v) unless violations.includes(v)
PushOnce(violations, v) ==
  IF v = <<>> \/ \E k \in 1..Len(violations) : violations[k] = v[1] THEN violations
  ELSE violations \o v

\* The loop of filter from the i-th code unit on; r holds filtered,
\* violations and removed.
RECURSIVE WhitelistLoop(_, _, _, _)
WhitelistLoop(cfg, input, i, r) ==
  IF i > Len(input) THEN r
  ELSE IF AllowedChar(cfg, CharCode(input[i]))
  THEN WhitelistLoop(cfg, input, i + 1, [r EXCEPT !.filtered = Append(@, input[i])])
  ELSE WhitelistLoop(cfg, input, i + 1,
                     [r EXCEPT !.removed = TRUE,
                               !.violations = PushOnce(@, RemovedKind(CharCode(input[i])))])

\* CharacterWhitelist.filter(input)
CharacterWhitelistFilter(cfg, input) ==
  IF ~cfg.enabled THEN [filtered |-> input, violations |-> <<>>]
  ELSE Let(WhitelistLoop(cfg, input, 1,
                         [filtered |-> <<>>, violations |-> <<>>, removed |-> FALSE]),
           LAMBDA r : [filtered |-> r.filtered,
                       violations |-> IF r.removed
                                      THEN PushOnce(r.violations,
                                                    <<"non_whitelisted_chars_removed">>)
                                      ELSE r.violations])

\* The filters of the Sanitizer, with sanitization.ansi_escapes and
\* sanitization.character_whitelist of the default configuration.
AnsiFilter(input) == AnsiFilterFilter(AnsiConfig(TRUE, "strip"), input)
CharWhitelistFilter(input) ==
  CharacterWhitelistFilter(WhitelistConfig(TRUE, <<<<32, 126>>>>, <<27, 127>>), input)

\* The rules of sanitization.patterns, in their order, and the atoms that the
\* regex of each matches: [;&|`$(){}\[\]<>] and \.\./|\.\.\\ ("../" is one atom).
PatternRules == <<"command_injection", "path_traversal">>
RuleAtoms(name) == IF name = "command_injection" THEN {";"} ELSE {"../"}

\* lastIndex of the RegExp of every rule, as compilePatterns leaves it.
ZeroLastIndex == [name \in {PatternRules[i] : i \in 1..Len(PatternRules)} |-> 0]

\* pattern.regex.test(input) of a RegExp with the g flag: the search starts
\* at lastIndex; a match moves lastIndex to its end, a failure resets it to 0.
RegexTest(name, input, lastIndex) ==
  LET found == {i \in (lastIndex + 1)..Len(input) : input[i] \in RuleAtoms(name)} IN
  IF found = {} THEN [matched |-> FALSE, lastIndex |-> 0]
  ELSE [matched |-> TRUE, lastIndex |-> CHOOSE i \in found : \A j \in found : i <= j]

\* A rule of PatternConfig.rules; action "" when the rule gives none.
Rule(name, action) == [name |-> name, action |-> action]

\* PatternConfig
PatternConfig(enabled, rules) == [enabled |-> enabled, rules |-> rules]

\* The action of a compiled pattern: rule.action || 'reject'
CompiledAction(rule) == IF rule.action = "" THEN "reject" ELSE rule.action

\* The loop of PatternMatcher.match over the rules from the i-th on.
RECURSIVE MatchRules(_, _, _, _)
MatchRules(rules, i, input, lastIndex) ==
  IF i > Len(rules) THEN [violations |-> <<>>, lastIndex |-> lastIndex]
  ELSE Let(RegexTest(rules[i].name, input, lastIndex[rules[i].name]),
           LAMBDA r :
             Let(MatchRules(rules, i + 1, input,
                            [lastIndex EXCEPT ![rules[i].name] = r.lastIndex]),
                 LAMBDA rest :
                   [violations |-> (IF r.matched THEN <<rules[i].name>> ELSE <<>>)
                                     \o rest.violations,
                    lastIndex |-> rest.lastIndex]))

\* PatternMatcher.match(input) of a matcher with configuration cfg, and the
\* lastIndex values it leaves.
PatternMatcherMatch(cfg, input, lastIndex) ==
  IF ~cfg.enabled
  THEN [matched |-> FALSE, violations |-> <<>>, lastIndex |-> lastIndex]
  ELSE Let(MatchRules(cfg.rules, 1, input, lastIndex),
           LAMBDA r : [matched |-> r.violations # <<>>, violations |-> r.violations,
                       lastIndex |-> r.lastIndex])

\* sanitized.replace(pattern.regex, '') of rule name.
StripRule(name, sanitized) == SelectSeq(sanitized, LAMBDA u : u \notin RuleAtoms(name))

\* The loop of PatternMatcher.check over the rules from the i-th on; r holds
\* matches (the names of the patterns pushed), sanitized and lastIndex.
\* String.replace with a global regex leaves its lastIndex at 0.
RECURSIVE CheckRules(_, _, _, _)
CheckRules(rules, i, input, r) ==
  IF i > Len(rules) THEN r
  ELSE Let(RegexTest(rules[i].name, input, r.lastIndex[rules[i].name]),
           LAMBDA t :
             CheckRules(rules, i + 1, input,
               IF ~t.matched
               THEN [r EXCEPT !.lastIndex[rules[i].name] = t.lastIndex]
               ELSE IF CompiledAction(rules[i]) = "strip"
               THEN [r EXCEPT !.matches = Append(@, rules[i].name),
                              !.sanitized = StripRule(rules[i].name, @),
                              !.lastIndex[rules[i].name] = 0]
               ELSE [r EXCEPT !.matches = Append(@, rules[i].name),
                              !.lastIndex[rules[i].name] = t.lastIndex]))

\* PatternMatcher.check(input, context)
PatternMatcherCheck(cfg, input, lastIndex) ==
  Let(CheckRules(cfg.rules, 1, input,
                 [matches |-> <<>>, sanitized |-> input, lastIndex |-> lastIndex]),
      LAMBDA r : [allowed |-> r.matches = <<>>, matches |-> r.matches,
                  sanitized |-> r.sanitized, lastIndex |-> r.lastIndex])

\* PatternMatcher.match(input), and the lastIndex values it leaves.
PatternMatch(input, lastIndex) ==
  PatternMatcherMatch(PatternConfig(proxyConfig.patterns,
                                    <<Rule(PatternRules[1], "reject"), Rule(PatternRules[2], "")>>),
                      input, lastIndex)

\* deepSanitize(obj, violations, modifications): the sanitized value, the
\* violations it pushed and the lastIndex values of the matcher afterwards.
RECURSIVE DeepSanitize(_, _)
RECURSIVE DeepSanitizeItems(_, _)
DeepSanitizeItems(items, lastIndex) ==
  IF items = <<>> THEN [message |-> <<>>, violations |-> <<>>, lastIndex |-> lastIndex]
  ELSE Let(DeepSanitize(Head(items), lastIndex),
           LAMBDA first :
             Let(DeepSanitizeItems(Tail(items), first.lastIndex),
                 LAMBDA rest :
                   [message |-> <<first.message>> \o rest.message,
                    violations |-> first.violations \o rest.violations,
                    lastIndex |-> rest.lastIndex]))

DeepSanitize(obj, lastIndex) ==
  IF obj.t = "str"
  THEN LET ansiResult == AnsiFilter(obj.v)
           charResult == CharWhitelistFilter(ansiResult.filtered)
       IN  Let(PatternMatch(charResult.filtered, lastIndex),
               LAMBDA patternResult :
                 [message |-> Str(charResult.filtered),
                  violations |-> ansiResult.violations \o charResult.violations
                                   \o patternResult.violations,
                  lastIndex |-> patternResult.lastIndex])
  ELSE IF obj.t = "arr"
  THEN Let(DeepSanitizeItems(obj.v, lastIndex),
           LAMBDA r : [message |-> Arr(r.message), violations |-> r.violations,
                       lastIndex |-> r.lastIndex])
  ELSE IF obj.t = "obj"
  THEN Let(DeepSanitizeItems(EntryValues(obj.v), lastIndex),
           LAMBDA r : [message |-> Obj(WithValues(obj.v, r.message)),
                       violations |-> r.violations, lastIndex |-> r.lastIndex])
  ELSE [message |-> obj, violations |-> <<>>, lastIndex |-> lastIndex]

\* Mutant of SafeDecision: strict_mode is not consulted.
SafeDecision_ViolationsOnly(violations) == violations = <<>>

\* safe: violations.length === 0 || !config.sanitization?.strict_mode
SafeDecision(violations) == violations = <<>> \/ ~StrictMode

\* sanitizeMessage(message, direction).  threw: storeKey threw and the call
\* returned nothing.
SanitizeMessage(S, message, direction, ctx, t) ==
  Let(ProcessApiKeys(S, message, direction, ctx, t),
      LAMBDA processedMessage :
        Let(DeepSanitize(processedMessage.message, S.lastIndex),
            LAMBDA sanitized :
              [safe |-> SafeDecision(sanitized.violations),
               modified |-> processedMessage.modified,
               message |-> sanitized.message,
               violations |-> sanitized.violations,
               hasApiKeys |-> processedMessage.modified,
               threw |-> processedMessage.ctx.threw,
               ctx |-> processedMessage.ctx,
               lastIndex |-> IF processedMessage.ctx.threw THEN S.lastIndex
                             ELSE sanitized.lastIndex]))

\* The callback of obj.replace(/MCPROXY_KEY_[A-F0-9]{32}/g, ...), match by
\* match from index i on.
RECURSIVE ReplacePlaceholders(_, _, _, _, _)
ReplacePlaceholders(S, input, i, V, t) ==
  IF i > Len(input) THEN [message |-> <<>>, modified |-> FALSE, V |-> V]
  ELSE IF input[i] = "M" /\ i < Len(input) /\ input[i + 1] \in HexAtoms
  THEN Let(RetrieveKey(V, <<input[i], input[i + 1]>>, S.connectionId, t),
           LAMBDA r :
             Let(ReplacePlaceholders(S, input, i + 2, r.V, t),
                 LAMBDA rest :
                   [message |-> (IF r.ret # Null THEN r.ret
                                 ELSE <<input[i], input[i + 1]>>) \o rest.message,
                    modified |-> (r.ret # Null) \/ rest.modified,
                    V |-> rest.V]))
  ELSE Let(ReplacePlaceholders(S, input, i + 1, V, t),
           LAMBDA rest : [message |-> <<input[i]>> \o rest.message,
                          modified |-> rest.modified, V |-> rest.V])

\* deepResubstitute(obj); ResubstituteItems is its loop over items or values.
RECURSIVE DeepResubstitute(_, _, _, _)
RECURSIVE ResubstituteItems(_, _, _, _)
ResubstituteItems(S, items, V, t) ==
  IF items = <<>> THEN [message |-> <<>>, modified |-> FALSE, V |-> V]
  ELSE Let(DeepResubstitute(S, Head(items), V, t),
           LAMBDA first :
             Let(ResubstituteItems(S, Tail(items), first.V, t),
                 LAMBDA rest :
                   [message |-> <<first.message>> \o rest.message,
                    modified |-> first.modified \/ rest.modified,
                    V |-> rest.V]))

DeepResubstitute(S, obj, V, t) ==
  IF obj.t = "str"
  THEN Let(IF IsPlaceholder(V, obj.v) THEN RetrieveKey(V, obj.v, S.connectionId, t)
           ELSE [V |-> V, ret |-> Null],
           LAMBDA whole :
             IF whole.ret # Null
             THEN [message |-> Str(whole.ret), modified |-> TRUE, V |-> whole.V]
             ELSE Let(ReplacePlaceholders(S, obj.v, 1, whole.V, t),
                      LAMBDA r : [message |-> Str(r.message), modified |-> r.modified,
                                  V |-> r.V]))
  ELSE IF obj.t = "arr"
  THEN Let(ResubstituteItems(S, obj.v, V, t),
           LAMBDA r : [message |-> Arr(r.message), modified |-> r.modified, V |-> r.V])
  ELSE IF obj.t = "obj"
  THEN Let(ResubstituteItems(S, EntryValues(obj.v), V, t),
           LAMBDA r : [message |-> Obj(WithValues(obj.v, r.message)),
                       modified |-> r.modified, V |-> r.V])
  ELSE [message |-> obj, modified |-> FALSE, V |-> V]

\* resubstituteApiKeys(obj)
ResubstituteApiKeys(S, obj, V, t) ==
  IF ~S.apiKeyProtection \/ S.connectionId = Undefined
  THEN [message |-> obj, modified |-> FALSE, V |-> V]
  ELSE DeepResubstitute(S, obj, V, t)

\* cleanupConnection()
CleanupConnection(S, V) ==
  IF S.connectionId # Undefined THEN RemoveConnectionKeys(V, S.connectionId) ELSE V

\* No message.
NoMessage == [t |-> "none", v |-> <<>>]

\* config.proxy of the default configuration of loadConfig.
DefaultProxy == [port |-> 8080, host |-> "0.0.0.0", mcpServerUrl |-> "ws://localhost:3000"]

\* The process was not started from the command line.
NoCli == [options |-> <<>>, files |-> <<>>]

\* The limiters of a RateLimiter, in the order in which checkLimit consumes
\* them.
Buckets == <<"global/minute", "global/hour", "client/minute", "client/hour",
             "method/minute", "method/hour">>

\* No point is consumed from any limiter.
NoPoints == [b \in {Buckets[i] : i \in 1..Len(Buckets)} |-> 0]

\* No filter was called.
NoFilterCall == [filter |-> "none", cfg |-> <<>>, input |-> <<>>, done |-> FALSE,
                 filtered |-> <<>>, violations |-> <<>>, op |-> "filter", calls |-> 0,
                 matched |-> FALSE, allowed |-> TRUE, matches |-> <<>>,
                 lastIndex |-> ZeroLastIndex, consumed |-> NoPoints]

\* No call of the Sanitizer was made yet.
SanIdle == [pc |-> "idle", count |-> 0, message |-> NoMessage,
            direction |-> "none", threw |-> FALSE, modified |-> FALSE,
            output |-> NoMessage, resubstituted |-> NoMessage,
            resubstitutedModified |-> FALSE,
            safe |-> TRUE, violations |-> <<>>, lastIndex |-> ZeroLastIndex]


\* ------------------------------------- ClientHandler, ServerHandler, server

\* message[key] of a JSON object; NoMessage stands for undefined.
Field(obj, key) ==
  IF obj.t = "obj" /\ \E i \in 1..Len(obj.v) : obj.v[i].k = key
  THEN obj.v[CHOOSE i \in 1..Len(obj.v) : obj.v[i].k = key].v
  ELSE NoMessage

\* JSON.parse(rawMessage) throws on text that is no JSON.
NotJson == [t |-> "text", v |-> <<>>]

\* The JSON values null, true and false.
JsonNull == [t |-> "null", v |-> <<>>]
Bool(b) == [t |-> "bool", v |-> b]

\* !value of JavaScript: undefined (a field that is absent), null, false, 0
\* and the empty string.
Falsy(value) ==
  \/ value.t \in {"none", "null"}
  \/ value.t = "bool" /\ ~value.v
  \/ value.t = "num" /\ value.v = 0
  \/ value.t = "str" /\ value.v = <<>>

\* validateJsonRpc(message)
ValidateJsonRpc(message) ==
  /\ Field(message, "jsonrpc") = Str(<<"2.0">>)
  /\ ~(~Falsy(Field(message, "method")) /\ Field(message, "method").t # "str")
  /\ ~(/\ Falsy(Field(message, "method"))
       /\ Falsy(Field(message, "result"))
       /\ Falsy(Field(message, "error")))

\* validateServerMessage(message)
ValidateServerMessage(message) ==
  /\ Field(message, "jsonrpc") = Str(<<"2.0">>)
  /\ IF ~Falsy(Field(message, "method"))
     THEN Field(message, "method").t = "str"
     ELSE Field(message, "result").t # "none" \/ Field(message, "error").t # "none"

\* The errorResponse of sendError(id, message); id: id || null.
ErrorResponse(id, text) ==
  Obj(<<Entry("jsonrpc", Str(<<"2.0">>)),
        Entry("error", Obj(<<Entry("code", Num(0 - 32603)), Entry("message", Str(<<text>>))>>)),
        Entry("id", IF Falsy(id) THEN JsonNull ELSE id)>>)

\* emit('security-event', {type: 'sanitization_blocked', violations, ...})
SanitizationBlocked(violations) == [type |-> "sanitization_blocked", violations |-> violations]

\* A rate_limiting configuration: requests_per_minute and requests_per_hour of
\* global, per_client and per_method (for the method "o"); 0 is not set.
RateLimiting(enabled, bucket, points) ==
  [enabled |-> enabled,
   points |-> [b \in {Buckets[i] : i \in 1..Len(Buckets)} |-> IF b = bucket THEN points ELSE 0]]

\* The limiters that the constructor of RateLimiter created and checkLimit
\* consumes for the method of message, in order.
LimitersFor(message) ==
  SelectSeq(Buckets,
            LAMBDA b : /\ proxyConfig.rateLimiting.points[b] > 0
                       /\ b \in {"method/minute", "method/hour"}
                            => Field(message, "method") = Str(<<"o">>))

\* Mutant of Consume: the limiter resolves whatever was consumed.
Consume_Unlimited(consumed, b) ==
  [consumed |-> [consumed EXCEPT ![b] = proxyConfig.rateLimiting.points[b]], ok |-> TRUE]

\* limiter.consume(key, 1) of a RateLimiterMemory within one window: the
\* points consumed under the key afterwards (counted up to points + 1) and
\* whether the promise resolved.
Consume(consumed, b) ==
  [consumed |-> [consumed EXCEPT ![b] = IF @ > proxyConfig.rateLimiting.points[b]
                                        THEN @ ELSE @ + 1],
   ok |-> consumed[b] + 1 <= proxyConfig.rateLimiting.points[b]]

\* Mutant of CheckLimit: a call that is throttled gives back the points it
\* consumed.
RECURSIVE CheckLimit_RollBack(_, _)
CheckLimit_RollBack(consumed, limiters) ==
  IF limiters = <<>> THEN [consumed |-> consumed, ok |-> TRUE]
  ELSE Let(Consume(consumed, Head(limiters)),
           LAMBDA r :
             IF ~r.ok THEN r
             ELSE Let(CheckLimit_RollBack(r.consumed, Tail(limiters)),
                      LAMBDA rest : IF rest.ok THEN rest
                                    ELSE [consumed |-> consumed, ok |-> FALSE]))

\* checkLimit(clientId, method) run from its first await to its return: the
\* limiters are consumed in order until one rejects.
RECURSIVE CheckLimit(_, _)
CheckLimit(consumed, limiters) ==
  IF limiters = <<>> THEN [consumed |-> consumed, ok |-> TRUE]
  ELSE Let(Consume(consumed, Head(limiters)),
           LAMBDA r : IF ~r.ok THEN r ELSE CheckLimit(r.consumed, Tail(limiters)))

\* Mutant of ClientSanitizer: the Sanitizer is given the connection's id.
ClientSanitizer_Bound(connectionId) ==
  SanitizerObj(connectionId, proxyConfig.apiKeyProtection, conns[connectionId].lastIndex)

\* The Sanitizer of a ClientHandler: new Sanitizer(config), without connectionId.
ClientSanitizer(connectionId) ==
  SanitizerObj(Undefined, proxyConfig.apiKeyProtection, conns[connectionId].lastIndex)

\* The Sanitizer of a ServerHandler: new Sanitizer(config, connectionId).
ServerSanitizer(connectionId) ==
  SanitizerObj(connectionId, proxyConfig.apiKeyProtection, ZeroLastIndex)

\* A ClientHandler with its ServerHandler right after handleConnection:
\* clientHandler.connect() has created the ServerHandler and its WebSocket.
\* clientVault and serverVault are the vaults of the two Sanitizers; socket is
\* the readyState of the WebSocket that connect() created last, serverWs
\* whether this.serverWs refers to it.  cleanedUp records a call of
\* cleanupConnection() on the connection's Sanitizers, lastIndex is the state
\* of the PatternMatcher of the ClientHandler's Sanitizer.  consumed holds the
\* points consumed from the limiters of the handler's RateLimiter; pending
\* holds the calls of handleClientMessage that wait at an await, in the order
\* in which their promise jobs run, and draining says that a promise job has
\* run since the last 'message' event.  admitted counts, for every limiter,
\* the messages it applies to for which checkLimit returned true.
NewHandler ==
  [isClosing |-> FALSE, clientWs |-> "OPEN", closeEmitted |-> FALSE,
   clientVault |-> EmptyVault, lastIndex |-> ZeroLastIndex,
   hasRateLimiter |-> proxyConfig.rateLimiting.enabled,
   consumed |-> [b \in {Buckets[i] : i \in 1..Len(Buckets)} |-> 0],
   admitted |-> [b \in {Buckets[i] : i \in 1..Len(Buckets)} |-> 0],
   pending |-> <<>>, draining |-> FALSE,
   hasSanitizer |-> proxyConfig.apiKeyProtection, serverVault |-> EmptyVault,
   serverWs |-> TRUE, socket |-> "CONNECTING", connected |-> FALSE,
   serverIsClosing |-> FALSE, reconnectAttempts |-> 0, reconnectTimer |-> FALSE,
   delay |-> 0, messageQueue |-> <<>>, cleanedUp |-> FALSE]

\* ServerHandler.close()
ServerHandlerClose(h) ==
  IF h.serverIsClosing THEN h
  ELSE [h EXCEPT !.serverIsClosing = TRUE,
                 !.socket = IF h.serverWs /\ @ = "OPEN" THEN "CLOSING" ELSE @,
                 !.serverWs = FALSE,
                 !.connected = FALSE,
                 !.messageQueue = <<>>]

\* ClientHandler.close().  closeEmitted: this.emit('close') ran, on which the
\* listener of handleConnection deletes the connection from the table.
ClientHandlerClose(h) ==
  IF h.isClosing THEN h
  ELSE LET h1 == ServerHandlerClose([h EXCEPT !.isClosing = TRUE])
       IN  [h1 EXCEPT !.clientWs = IF @ = "OPEN" THEN "CLOSING" ELSE @,
                      !.closeEmitted = TRUE]

\* handleClientClose()
HandleClientClose(h) ==
  IF ~h.isClosing THEN ClientHandlerClose([h EXCEPT !.isClosing = TRUE]) ELSE h

\* The listener serverHandler.on('close', ...) of ClientHandler.connect.
OnServerHandlerClose(h) == IF ~h.isClosing THEN ClientHandlerClose(h) ELSE h

\* Math.pow(2, n)
RECURSIVE Pow2(_)
Pow2(n) == IF n <= 0 THEN 1 ELSE 2 * Pow2(n - 1)

\* handleReconnect(); delay is the delay of the timer it sets.
HandleReconnect(h) ==
  IF h.serverIsClosing THEN h
  ELSE IF h.reconnectAttempts >= MaxReconnectAttempts THEN OnServerHandlerClose(h)
  ELSE [h EXCEPT !.reconnectAttempts = @ + 1, !.reconnectTimer = TRUE,
                 !.delay = ReconnectDelay * Pow2(h.reconnectAttempts)]

\* handleServerClose(code, reason)
HandleServerClose(h) ==
  LET h1 == [h EXCEPT !.connected = FALSE] IN
  IF ~h1.serverIsClosing /\ proxyConfig.autoReconnect
  THEN HandleReconnect(h1)
  ELSE OnServerHandlerClose(h1)

\* isConnected()
IsConnected(h) == h.connected /\ h.serverWs /\ h.socket = "OPEN"

\* sendToServer's tail with a full queue that gives up its oldest message.
SendOrQueue_DropOldest(h, messageToSend) ==
  IF h.connected /\ h.socket = "OPEN" THEN [h |-> h, wire |-> messageToSend]
  ELSE IF Len(h.messageQueue) < MaxQueueSize
  THEN [h |-> [h EXCEPT !.messageQueue = Append(@, messageToSend)], wire |-> NoMessage]
  ELSE [h |-> [h EXCEPT !.messageQueue = Append(Tail(@), messageToSend)],
        wire |-> NoMessage]

\* The tail of sendToServer(message), once messageToSend is known: write it
\* to the socket or queue it.
SendOrQueue(h, messageToSend) ==
  IF h.connected /\ h.socket = "OPEN" THEN [h |-> h, wire |-> messageToSend]
  ELSE IF Len(h.messageQueue) < MaxQueueSize
  THEN [h |-> [h EXCEPT !.messageQueue = Append(@, messageToSend)], wire |-> NoMessage]
  ELSE [h |-> h, wire |-> NoMessage]

\* sendToServer(message): the handler afterwards and what went on the wire.
SendToServer(h, connectionId, message, t) ==
  IF ~h.serverWs THEN [h |-> h, wire |-> NoMessage]
  ELSE IF h.hasSanitizer /\ proxyConfig.apiKeyProtection
  THEN Let(ResubstituteApiKeys(ServerSanitizer(connectionId), message, h.serverVault, t),
           LAMBDA r : SendOrQueue([h EXCEPT !.serverVault = r.V],
                                  IF r.modified THEN r.message ELSE message))
  ELSE SendOrQueue(h, message)

\* flushMessageQueue(): sendToServer on every queued message, in order; wire
\* is the last message written to the socket.
RECURSIVE FlushMessageQueue(_, _, _)
FlushMessageQueue(h, connectionId, t) ==
  IF ~h.connected \/ ~h.serverWs \/ h.messageQueue = <<>>
  THEN [h |-> h, wire |-> NoMessage]
  ELSE Let(SendToServer([h EXCEPT !.messageQueue = Tail(@)], connectionId,
                        Head(h.messageQueue), t),
           LAMBDA r :
             Let(FlushMessageQueue(r.h, connectionId, t),
                 LAMBDA rest :
                   [h |-> rest.h,
                    wire |-> IF rest.wire # NoMessage THEN rest.wire ELSE r.wire]))

\* No 'security-event' was emitted.
NoEvent == [type |-> "none", violations |-> <<>>]

\* What the last handler took in and put out: the data it received, the message
\* it handed to sendToServer, the message written to the server socket, the
\* message written to the client socket, the 'security-event' it emitted and
\* the code it closed the client socket with; for a client message that got
\* past the rate limit or was refused by it, its place n among the messages
\* that arrived together, and whether sanitizeMessage was called on it.
NoOut == [connectionId |-> "none", from |-> "none", input |-> NoMessage,
          handed |-> NoMessage, wire |-> NoMessage, toClient |-> NoMessage,
          event |-> NoEvent, closeCode |-> 0, n |-> 0, sanitized |-> FALSE,
          listen |-> [host |-> "", port |-> 0], url |-> ""]

\* No connection was made.
NoProxy ==
  /\ conns = EmptyMap
  /\ connections = {}
  /\ connectionCounter = 0
  /\ stopped = FALSE
  /\ lastOut = NoOut

\* The proxy is not running (SpecVault).
ProxyIdle ==
  /\ proxyConfig = [apiKeyProtection |-> FALSE, autoReconnect |-> FALSE,
                    strictMode |-> FALSE, patterns |-> FALSE, maxConnections |-> 2,
                    proxy |-> DefaultProxy,
                    rateLimiting |-> RateLimiting(FALSE, "none", 0)]
  /\ NoProxy

\* ------------------------------------------------- SpecVault: the vault API

TheVault == VaultObj(vault, keyToPlaceholder, connectionKeys)

SetVault(V) ==
  /\ vault' = V.vault
  /\ keyToPlaceholder' = V.keyToPlaceholder
  /\ connectionKeys' = V.connectionKeys

NoCall == [op |-> "none", connectionId |-> "none", apiKey |-> Null,
           placeholder |-> Null, ret |-> Null, threw |-> FALSE, changed |-> FALSE]

\* The record of a call that took the vault from TheVault to V.
Called(op, connectionId, apiKey, placeholder, ret, threw, V) ==
  [op |-> op, connectionId |-> connectionId, apiKey |-> apiKey,
   placeholder |-> placeholder, ret |-> ret, threw |-> threw,
   changed |-> (V # TheVault)]

\* The vault as constructed, under the storage options `encryption`.
InitVaultWith(encryption) ==
  /\ config \in [enabled : BOOLEAN, encryption : encryption]
  /\ vault = EmptyMap
  /\ keyToPlaceholder = EmptyMap
  /\ connectionKeys = EmptyMap
  /\ cleanupInterval = (Ttl > 0)
  /\ now = 0
  /\ minted = EmptyMap
  /\ last = NoCall
  /\ san = SanIdle
  /\ flt = NoFilterCall
  /\ cli = NoCli
  /\ ProxyIdle

\* encryption: config.encryption !== false, the default and the tests' option.
InitVault == InitVaultWith({TRUE})

\* randomBytes(16): a value never drawn before, or Null when the model has no
\* value left.  Placeholders are opaque, so the model draws them in one fixed
\* order.
FreshPlaceholder == FreshFor(minted)

\* The strings a caller may pass as a placeholder.
PlaceholderArgs == Placeholders

VStoreKey(connectionId, apiKey) ==
  LET fresh == FreshPlaceholder
      r == StoreKey(TheVault, apiKey, connectionId, "openai", now, fresh) IN
  /\ r.minted => fresh # Null
  /\ SetVault(r.V)
  /\ minted' = IF r.minted THEN MapSet(minted, fresh, connectionId) ELSE minted
  /\ last' = Called("storeKey", connectionId, apiKey, Null, r.ret, r.threw, r.V)
  /\ UNCHANGED <<config, cleanupInterval, now, san, flt, cli, proxyVars>>

VRetrieveKey(placeholder, connectionId) ==
  LET r == RetrieveKey(TheVault, placeholder, connectionId, now) IN
  /\ SetVault(r.V)
  /\ last' = Called("retrieveKey", connectionId, Null, placeholder, r.ret, FALSE, r.V)
  /\ UNCHANGED <<config, cleanupInterval, now, minted, san, flt, cli, proxyVars>>

VRemoveKey(placeholder) ==
  /\ SetVault(RemoveKey(TheVault, placeholder))
  /\ last' = Called("removeKey", "none", Null, placeholder, Null, FALSE,
                    RemoveKey(TheVault, placeholder))
  /\ UNCHANGED <<config, cleanupInterval, now, minted, san, flt, cli, proxyVars>>

VRemoveConnectionKeys(connectionId) ==
  /\ SetVault(RemoveConnectionKeys(TheVault, connectionId))
  /\ last' = Called("removeConnectionKeys", connectionId, Null, Null, Null, FALSE,
                    RemoveConnectionKeys(TheVault, connectionId))
  /\ UNCHANGED <<config, cleanupInterval, now, minted, san, flt, cli, proxyVars>>

\* The setInterval callback of the constructor.
VCleanupExpiredKeys ==
  /\ cleanupInterval
  /\ SetVault(CleanupExpiredKeys(TheVault, now))
  /\ last' = Called("cleanupExpiredKeys", "none", Null, Null, Null, FALSE,
                    CleanupExpiredKeys(TheVault, now))
  /\ UNCHANGED <<config, cleanupInterval, now, minted, san, flt, cli, proxyVars>>

VShutdown ==
  /\ SetVault(Shutdown(TheVault))
  /\ cleanupInterval' = FALSE
  /\ last' = Called("shutdown", "none", Null, Null, Null, FALSE, Shutdown(TheVault))
  /\ UNCHANGED <<config, now, minted, san, flt, cli, proxyVars>>

\* Time passes.
Tick ==
  /\ now < MaxTime
  /\ now' = now + 1
  /\ UNCHANGED <<config, vault, keyToPlaceholder, connectionKeys, cleanupInterval,
                 minted, last, san, flt, cli, proxyVars>>

NextVault ==
  \/ \E c \in ConnectionIds, k \in VaultKeys : VStoreKey(c, k)
  \/ \E p \in PlaceholderArgs, c \in ConnectionIds : VRetrieveKey(p, c)
  \/ \E p \in Placeholders : VRemoveKey(p)
  \/ \E c \in ConnectionIds : VRemoveConnectionKeys(c)
  \/ VCleanupExpiredKeys
  \/ VShutdown
  \/ Tick

SpecVault == InitVault /\ [][NextVault]_vars

\* The vault with encryption enabled or disabled (config.encryption).
SpecVaultAny == InitVaultWith(BOOLEAN) /\ [][NextVault]_vars

\* ------------------------------------------------------ claims on the vault

\* The step is the call storeKey(k, c).
StoreStep(c, k) ==
  /\ last'.op = "storeKey" /\ last'.connectionId = c /\ last'.apiKey = k
  /\ VStoreKey(c, k)

\* The step is the call removeConnectionKeys(c).
RemoveAllStep(c) ==
  /\ last'.op = "removeConnectionKeys" /\ last'.connectionId = c
  /\ VRemoveConnectionKeys(c)

\* The placeholders connection c owns, by the records' connectionId.
OwnedPlaceholders(V, c) == {p \in DOMAIN V.vault : V.vault[p].connectionId = c}

\* The placeholders under which connection c holds the secret k.
HeldUnder(V, c, k) == {p \in OwnedPlaceholders(V, c) : PlainOf(V.vault[p]) = k}

\* The size of c's placeholder set (connectionKeys.get(c)?.size).
KeyCount(V, c) ==
  IF MapHas(V.connectionKeys, c) THEN Cardinality(V.connectionKeys[c]) ELSE 0

\* C1: vault scoping. For every placeholder p minted for connection A and every
\* connection B other than A, retrieveKey(p, B) returns null, in every state any
\* sequence of vault calls reaches; and every such call that was made returned null.
C1_VaultScoping ==
  /\ \A p \in DOMAIN minted : \A b \in ConnectionIds \ {minted[p]} :
       RetrieveKey(TheVault, p, b, now).ret = Null
  /\ (/\ last.op = "retrieveKey"
      /\ last.placeholder \in DOMAIN minted
      /\ minted[last.placeholder] # last.connectionId) => last.ret = Null

\* A connection asked for a live, unexpired record of another connection.
C1_Witness ==
  /\ last.op = "retrieveKey"
  /\ last.placeholder \in DOMAIN vault
  /\ vault[last.placeholder].connectionId # last.connectionId
  /\ ~Expired(vault[last.placeholder], now)
  /\ last.ret = Null

\* One record per placeholder, owned by exactly one connection.
C7_OneRecordOneOwner ==
  \A p \in DOMAIN vault :
    /\ vault[p].placeholder = p
    /\ {c \in DOMAIN connectionKeys : p \in connectionKeys[c]} = {vault[p].connectionId}

C7_Step(c, k) ==
  (StoreStep(c, k) /\ config.enabled) =>
    /\ HeldUnder(TheVault, c, k) # {} =>
         /\ last'.ret \in HeldUnder(TheVault, c, k)
         /\ DOMAIN vault' = DOMAIN vault
         /\ connectionKeys' = connectionKeys
    /\ ~last'.threw =>
         /\ last'.ret \in DOMAIN vault'
         /\ PlainOf(vault'[last'.ret]) = k
         /\ \A q \in DOMAIN vault' \ {last'.ret} : PlainOf(vault'[q]) # k

\* C7: placeholder uniqueness and stability. A store of a secret the connection
\* already holds returns the placeholder it holds it under, adds no record and
\* leaves the connection's placeholder set as it was; the placeholder a store
\* returns stands for that secret and for no other (distinct secrets get distinct
\* placeholders); every placeholder has one record, owned by one connection.
C7_PlaceholderStable ==
  [][(\A c \in ConnectionIds, k \in VaultKeys : C7_Step(c, k))
     /\ C7_OneRecordOneOwner']_vars

\* A connection holding two secrets stored one of them again, later.
C7_Witness ==
  /\ last.op = "storeKey"
  /\ last.ret \in DOMAIN vault
  /\ vault[last.ret].connectionId = last.connectionId
  /\ now > vault[last.ret].createdAt
  /\ KeyCount(TheVault, last.connectionId) = 2

\* C8: store/retrieve round trip. After any history, a placeholder that
\* storeKey(s, C) returns is owned by C, and retrieveKey(p, C) called right after
\* returns s.
C8_StoreRetrieveRoundTrip ==
  [][\A c \in ConnectionIds, k \in VaultKeys :
       (StoreStep(c, k) /\ config.enabled /\ ~last'.threw) =>
          /\ last'.ret \in DOMAIN vault'
          /\ vault'[last'.ret].connectionId = c
          /\ RetrieveKey(VaultObj(vault', keyToPlaceholder', connectionKeys'),
                         last'.ret, c, now').ret = k]_vars

\* C9: per-connection capacity. No connection owns more than
\* maxKeysPerConnection placeholders; a store of a secret the connection does not
\* hold, by a connection that owns that many, throws and leaves the vault as it
\* was; a store of a secret the connection holds does not throw.
C9_PerConnectionCapacity ==
  [][/\ \A c \in ConnectionIds :
          /\ KeyCount(VaultObj(vault', keyToPlaceholder', connectionKeys'), c)
               <= MaxKeysPerConnection
          /\ Cardinality(OwnedPlaceholders(
               VaultObj(vault', keyToPlaceholder', connectionKeys'), c))
               <= MaxKeysPerConnection
     /\ \A c \in ConnectionIds, k \in VaultKeys :
          (StoreStep(c, k) /\ config.enabled) =>
             /\ (/\ KeyCount(TheVault, c) >= MaxKeysPerConnection
                 /\ HeldUnder(TheVault, c, k) = {}) =>
                   /\ last'.threw
                   /\ VaultObj(vault', keyToPlaceholder', connectionKeys') = TheVault
             /\ HeldUnder(TheVault, c, k) # {} => ~last'.threw]_vars

\* C10: removeConnectionKeys(C) removes the records of C and nothing else. After
\* it no placeholder minted for C is in the vault or retrievable by C, every
\* record of another connection is as it was and is retrieved by its owner as
\* before, no record is added, and C owns no placeholder, so that no store by C
\* meets the capacity limit.
C10_RemoveAllFrame ==
  [][\A c \in ConnectionIds :
       RemoveAllStep(c) =>
         LET V1 == VaultObj(vault', keyToPlaceholder', connectionKeys') IN
         /\ \A p \in DOMAIN minted :
              minted[p] = c =>
                /\ p \notin DOMAIN vault'
                /\ RetrieveKey(V1, p, c, now').ret = Null
         /\ OwnedPlaceholders(V1, c) = {}
         /\ KeyCount(V1, c) = 0
         /\ \A k \in VaultKeys, f \in Placeholders :
              ~StoreKey(V1, k, c, "openai", now', f).threw
         /\ DOMAIN vault' \subseteq DOMAIN vault
         /\ \A p \in DOMAIN vault :
              vault[p].connectionId # c =>
                /\ p \in DOMAIN vault'
                /\ vault'[p] = vault[p]
                /\ vault[p].connectionId \in DOMAIN connectionKeys'
                /\ p \in connectionKeys'[vault[p].connectionId]
                /\ RetrieveKey(V1, p, vault[p].connectionId, now').ret
                     = RetrieveKey(TheVault, p, vault[p].connectionId, now).ret]_vars

\* removeConnectionKeys removed records of one connection while another
\* connection had a record that its owner can retrieve.
C10_Witness ==
  /\ last.op = "removeConnectionKeys"
  /\ last.changed
  /\ \E p \in DOMAIN minted : minted[p] = last.connectionId
  /\ \E q \in DOMAIN vault :
       /\ vault[q].connectionId # last.connectionId
       /\ RetrieveKey(TheVault, q, vault[q].connectionId, now).ret = PlainOf(vault[q])

\* The step is the call retrieveKey(p, c).
RetrieveStep(p, c) ==
  /\ last'.op = "retrieveKey" /\ last'.placeholder = p /\ last'.connectionId = c
  /\ VRetrieveKey(p, c)

\* The step is a run of the periodic sweep.
SweepStep == last'.op = "cleanupExpiredKeys" /\ VCleanupExpiredKeys

\* The record is older than ttl at time t.
OlderThanTtl(stored, t) == t - stored.createdAt > Ttl

\* C11: TTL expiry. A retrieveKey on a record older than ttl returns null,
\* whoever calls, and the owner's call deletes the record; a retrieveKey never
\* returns the secret of a record older than ttl; the sweep removes exactly the
\* records older than ttl and leaves the younger records as they were.
C11_TtlExpiry ==
  [][/\ \A p \in DOMAIN vault, c \in ConnectionIds :
          (RetrieveStep(p, c) /\ config.enabled /\ OlderThanTtl(vault[p], now)) =>
             /\ last'.ret = Null
             /\ c = vault[p].connectionId =>
                  /\ p \notin DOMAIN vault'
                  /\ ~(\E x \in DOMAIN connectionKeys' : p \in connectionKeys'[x])
     /\ \A p \in DOMAIN vault, c \in ConnectionIds :
          (RetrieveStep(p, c) /\ ~OlderThanTtl(vault[p], now)) =>
             /\ vault' = vault
     /\ SweepStep =>
          /\ DOMAIN vault' = {p \in DOMAIN vault : ~OlderThanTtl(vault[p], now)}
          /\ \A p \in DOMAIN vault' : vault'[p] = vault[p]]_vars

\* The owner asked for a record older than ttl: the call returned null and
\* deleted the record, and a younger record is still in the vault.
C11_Witness ==
  /\ last.op = "retrieveKey"
  /\ last.placeholder \in DOMAIN minted
  /\ minted[last.placeholder] = last.connectionId
  /\ last.changed
  /\ last.ret = Null
  /\ last.placeholder \notin DOMAIN vault
  /\ \E q \in DOMAIN vault : ~OlderThanTtl(vault[q], now)

\* ------------------------------------------ SpecSan: one Sanitizer with an id

\* new Sanitizer(config, 'conn-1'), api_key_protection.enabled: true (the tests).
TheSanitizer == SanitizerObj("conn-1", TRUE, san.lastIndex)

\* Pieces of message text: a secret, the word Bearer, a secret after a blank,
\* a blank and a word, and a shell metacharacter.
Segments == {Key1, <<"B">>, <<" ">> \o Key1, <<" ">> \o Key2, <<" ", "o">>, <<";">>}

\* Text that the pattern rules match at its start, further in, or twice.
PatternLeaves == {<<"o", ";">>, <<"../">>, <<"o", "../", ";">>}

\* The strings made of at most n pieces.
RECURSIVE Concats(_)
Concats(n) ==
  IF n = 0 THEN {<<>>}
  ELSE LET prev == Concats(n - 1) IN prev \cup {p \o s : p \in prev, s \in Segments}

Leaves == Concats(MaxSegments)

\* {"k": leaf}
Flat(leaf) == Obj(<<Entry("k", Str(leaf))>>)

\* {"method": "o", "params": [l1, {"k": l2}, 1]}
Nested(l1, l2) ==
  Obj(<<Entry("method", Str(<<"o">>)),
        Entry("params", Arr(<<Str(l1), Obj(<<Entry("k", Str(l2))>>), Num(1)>>))>>)

\* The code units of an object key: "\\x1bk" is ESC followed by k, "\\x7f" is
\* DEL alone; every other key of the model is one printable word.
KeyUnits(key) ==
  CASE key = "\\x1bk" -> <<"ESC", "k">>
    [] key = "\\x7f" -> <<"DEL">>
    [] OTHER -> <<key>>

\* {"\x1bk": leaf, "\x7f": "o", "n": 1}
OddKeys(leaf) ==
  Obj(<<Entry("\\x1bk", Str(leaf)), Entry("\\x7f", Str(<<"o">>)), Entry("n", Num(1))>>)

\* {"k": leaf, "__proto__": null, "n": 1, "b": true}, as JSON.parse returns it:
\* __proto__ is an own property.
ProtoKey(leaf) ==
  Obj(<<Entry("k", Str(leaf)), Entry("__proto__", JsonNull), Entry("n", Num(1)),
        Entry("b", Bool(TRUE))>>)

Messages ==
  {Flat(l) : l \in Leaves \cup PatternLeaves}
    \cup {Nested(l1, l2) : l1 \in Concats(1), l2 \in {Key1, Key2}}
    \cup {OddKeys(l) : l \in {<<"o">>, Key1}}
    \cup {ProtoKey(l) : l \in {<<"o">>, Key1}}

\* The messages sanitized before the last one of a behaviour.
HistoryMessages == {Flat(l) : l \in Concats(1) \cup PatternLeaves}

Directions == {"client_to_server", "server_to_client"}

InitSan ==
  /\ config = [enabled |-> TRUE, encryption |-> TRUE]
  /\ vault = EmptyMap
  /\ keyToPlaceholder = EmptyMap
  /\ connectionKeys = EmptyMap
  /\ cleanupInterval = (Ttl > 0)
  /\ now = 0
  /\ minted = EmptyMap
  /\ last = NoCall
  /\ san = SanIdle
  /\ flt = NoFilterCall
  /\ cli = NoCli
  /\ proxyConfig \in {c \in [apiKeyProtection : {TRUE}, autoReconnect : {FALSE},
                             strictMode : BOOLEAN, patterns : BOOLEAN,
                             maxConnections : {2},
                             proxy : {DefaultProxy}, rateLimiting : {RateLimiting(FALSE, "none", 0)}] :
                         c.strictMode => c.patterns}
  /\ NoProxy

\* sanitizer.sanitizeMessage(message, direction)
SanSanitizeMessage(message, direction) ==
  /\ san.count < MaxMessages
  /\ san.count < MaxMessages - 1 => message \in HistoryMessages
  /\ \E r \in {SanitizeMessage(TheSanitizer, message, direction, Ctx(TheVault, minted), now)} :
       /\ ~r.ctx.exhausted
       /\ SetVault(r.ctx.V)
       /\ minted' = r.ctx.minted
       /\ san' = [pc |-> "sanitized", count |-> san.count + 1, message |-> message,
                  direction |-> direction, threw |-> r.threw,
                  modified |-> ~r.threw /\ r.modified,
                  output |-> IF r.threw THEN NoMessage ELSE r.message,
                  resubstituted |-> NoMessage, resubstitutedModified |-> FALSE,
                  safe |-> r.safe, violations |-> r.violations,
                  lastIndex |-> r.lastIndex]
  /\ UNCHANGED <<config, cleanupInterval, now, last, flt, cli, proxyVars>>

\* sanitizer.resubstituteApiKeys(sanitized.message)
SanResubstituteApiKeys ==
  /\ san.pc = "sanitized"
  /\ ~san.threw
  /\ \E r \in {ResubstituteApiKeys(TheSanitizer, san.output, TheVault, now)} :
       /\ SetVault(r.V)
       /\ san' = [san EXCEPT !.pc = "resubstituted", !.resubstituted = r.message,
                             !.resubstitutedModified = r.modified]
  /\ UNCHANGED <<config, cleanupInterval, now, minted, last, flt, cli, proxyVars>>

\* sanitizer.sanitizeMessage(sanitized.message, direction): the message that
\* the last call returned goes through the same Sanitizer again.
SanSanitizeAgain ==
  /\ san.pc = "sanitized"
  /\ ~san.threw
  /\ \E r \in {SanitizeMessage(TheSanitizer, san.output, san.direction,
                                Ctx(TheVault, minted), now)} :
       /\ ~r.ctx.exhausted
       /\ SetVault(r.ctx.V)
       /\ minted' = r.ctx.minted
       /\ san' = [pc |-> "again", count |-> san.count, message |-> san.output,
                  direction |-> san.direction, threw |-> r.threw,
                  modified |-> ~r.threw /\ r.modified,
                  output |-> IF r.threw THEN NoMessage ELSE r.message,
                  resubstituted |-> NoMessage, resubstitutedModified |-> FALSE,
                  safe |-> r.safe, violations |-> r.violations,
                  lastIndex |-> r.lastIndex]
  /\ UNCHANGED <<config, cleanupInterval, now, last, flt, cli, proxyVars>>

NextSan ==
  \/ \E m \in Messages, d \in Directions : SanSanitizeMessage(m, d)
  \/ SanResubstituteApiKeys
  \/ SanSanitizeAgain

SpecSan == InitSan /\ [][NextSan]_vars

\* -------------------------------------------------- claims on the Sanitizer

\* The string leaves of a JSON value, in order.
RECURSIVE StringLeaves(_)
RECURSIVE LeavesOfItems(_)
LeavesOfItems(items) ==
  IF items = <<>> THEN <<>>
  ELSE StringLeaves(Head(items)) \o LeavesOfItems(Tail(items))

StringLeaves(obj) ==
  IF obj.t = "str" THEN <<obj.v>>
  ELSE IF obj.t = "arr" THEN LeavesOfItems(obj.v)
  ELSE IF obj.t = "obj" THEN LeavesOfItems(EntryValues(obj.v))
  ELSE <<>>

\* C5: round trip for secrets. When sanitizeMessage(m, client_to_server) has
\* substituted secrets in m and resubstituteApiKeys is applied to its result,
\* the message that comes out equals m.
C5_SecretRoundTrip ==
  [][(/\ SanResubstituteApiKeys
      /\ san.direction = "client_to_server"
      /\ san.modified) => san'.resubstituted = san.message]_vars

\* A call of sanitizeMessage that returned a result.
SanitizeStep == san'.count = san.count + 1 /\ ~san'.threw

LeafMatches(name, message) ==
  \E i \in 1..Len(StringLeaves(message)) :
    \E j \in 1..Len(StringLeaves(message)[i]) :
      StringLeaves(message)[i][j] \in RuleAtoms(name)

\* C14: with the pattern rules enabled and no strict_mode set, sanitizeMessage
\* on a message with a string leaf that matches a reject rule returns safe
\* false and has the name of the rule among the violations.
C14_RejectRuleUnsafe ==
  [][(/\ SanitizeStep
      /\ proxyConfig.patterns
      /\ ~proxyConfig.strictMode)
     => \A i \in 1..Len(PatternRules) :
          LeafMatches(PatternRules[i], san'.message)
            => /\ ~san'.safe
               /\ \E k \in 1..Len(san'.violations) : san'.violations[k] = PatternRules[i]]_vars

\* --------------------------------------------- SpecProxy: the running proxy

\* `conn-${++this.connectionCounter}`
ConnectionName == <<"conn-1", "conn-2", "conn-3", "conn-4">>

\* {"jsonrpc": "2.0", "method": "o", "params": {"k": leaf}}
Request(leaf) ==
  Obj(<<Entry("jsonrpc", Str(<<"2.0">>)), Entry("method", Str(<<"o">>)),
        Entry("params", Obj(<<Entry("k", Str(leaf))>>))>>)

\* {"jsonrpc": "2.0", "result": {"k": leaf}}
Response(leaf) ==
  Obj(<<Entry("jsonrpc", Str(<<"2.0">>)), Entry("result", Obj(<<Entry("k", Str(leaf))>>))>>)

\* {"jsonrpc": "2.0", "method": "o", "params": {"k": leaf}, "id": id}
RequestWithId(leaf, id) ==
  Obj(<<Entry("jsonrpc", Str(<<"2.0">>)), Entry("method", Str(<<"o">>)),
        Entry("params", Obj(<<Entry("k", Str(leaf))>>)), Entry("id", Num(id))>>)

\* What a client sends: a request carrying a secret, one carrying none, a
\* message with the id "" that is no JSON-RPC 2.0, text that is no JSON,
\* requests with the ids 7 and 0 that carry a shell metacharacter.
ClientData == {Request(Key1), Request(<<"o">>),
               Obj(<<Entry("method", Str(<<"o">>)), Entry("id", Str(<<>>))>>), NotJson,
               RequestWithId(<<";">>, 7), RequestWithId(<<";">>, 0)}

\* What a client sends to the proxy with a rate limit: requests of the method
\* "o" without and with an id, a response (which has no method), and text
\* that is no JSON.
RateData == {Request(<<"o">>), RequestWithId(<<"o">>, 7), Response(<<"o">>), NotJson}

\* What the MCP server sends: a response that carries the text of a placeholder
\* and a secret, and a message that is no JSON-RPC 2.0.
ServerData == {Response(PlaceholderOf(1) \o <<" ">> \o Key1),
               Obj(<<Entry("jsonrpc", Str(<<"1.0">>))>>)}

\* The configurations of the proxy without a rate limit, with which
\* handleClientMessage runs to its end without waiting: key protection and
\* auto_reconnect on or off, and beside the defaults strict_mode or
\* max_connections 1.
ProxyConfigs ==
  [apiKeyProtection : BOOLEAN, autoReconnect : BOOLEAN, strictMode : {FALSE},
   patterns : {TRUE}, maxConnections : {2}, proxy : {DefaultProxy}, rateLimiting : {RateLimiting(FALSE, "none", 0)}]
  \cup
  {c \in [apiKeyProtection : {FALSE}, autoReconnect : {FALSE}, strictMode : BOOLEAN,
          patterns : {TRUE}, maxConnections : {1, 2},
          proxy : {DefaultProxy}, rateLimiting : {RateLimiting(FALSE, "none", 0)}] :
     c.strictMode # (c.maxConnections = 1)}

\* The configurations with a rate limit: 2 requests a minute per client or 1
\* for the method "o" with max_connections 1, and 1 request a minute globally
\* with max_connections 2.
RateConfigs ==
  {c \in [apiKeyProtection : {FALSE}, autoReconnect : {FALSE}, strictMode : {FALSE},
          patterns : {TRUE}, maxConnections : {1, 2},
          proxy : {DefaultProxy}, rateLimiting : {RateLimiting(TRUE, "client/minute", 2),
                          RateLimiting(TRUE, "global/minute", 1),
                          RateLimiting(TRUE, "method/minute", 1)}] :
     (c.maxConnections = 2) = (c.rateLimiting.points["global/minute"] > 0)}

\* The proxy after start(), with one of the given configurations.
InitProxyWith(configs) ==
  /\ config = [enabled |-> TRUE, encryption |-> TRUE]
  /\ vault = EmptyMap
  /\ keyToPlaceholder = EmptyMap
  /\ connectionKeys = EmptyMap
  /\ cleanupInterval = (Ttl > 0)
  /\ now = 0
  /\ minted = EmptyMap
  /\ last = NoCall
  /\ san = SanIdle
  /\ flt = NoFilterCall
  /\ cli = NoCli
  /\ proxyConfig \in configs
  /\ connections = {}
  /\ connectionCounter = 0
  /\ conns = EmptyMap
  /\ stopped = FALSE
  /\ lastOut = NoOut

InitProxy == InitProxyWith(ProxyConfigs)

InitRate == InitProxyWith(RateConfigs)

\* The handler of connection c becomes h1; its 'close' event, when h1 emitted
\* it, deletes c from the table (the listener registered by handleConnection).
SetHandler(c, h1) ==
  /\ conns' = MapSet(conns, c, h1)
  /\ connections' = IF h1.closeEmitted /\ ~conns[c].closeEmitted
                    THEN connections \ {c} ELSE connections

\* No call of handleClientMessage waits at an await: the promise jobs have
\* run, and the next event is taken from the event loop.
Quiet == \A c \in DOMAIN conns : conns[c].pending = <<>>

\* wsServer.on('connection'): handleConnection(clientWs, request)
HandleConnection ==
  /\ Quiet
  /\ ~stopped
  /\ connectionCounter < MaxConnectionAttempts
  /\ connectionCounter' = connectionCounter + 1
  /\ LET connectionId == ConnectionName[connectionCounter + 1] IN
     IF Cardinality(connections) >= MaxConnections
     THEN /\ UNCHANGED <<connections, conns>>
          /\ lastOut' = [NoOut EXCEPT !.connectionId = connectionId, !.from = "rejected",
                                      !.closeCode = 1008]
     ELSE /\ connections' = connections \cup {connectionId}
          /\ conns' = MapSet(conns, connectionId, NewHandler)
          /\ lastOut' = [NoOut EXCEPT !.connectionId = connectionId, !.from = "accepted",
                                      !.url = proxyConfig.proxy.mcpServerUrl]
  /\ UNCHANGED <<vaultVars, san, flt, cli, proxyConfig, stopped>>

\* Mutant of Forward: the message is refused also when the server is
\* connected.
Forward_Refuse(c, data, h, message, event, n) ==
  /\ lastOut' = [NoOut EXCEPT !.connectionId = c, !.from = "client", !.input = data,
                              !.event = event, !.n = n, !.sanitized = TRUE,
                              !.toClient = ErrorResponse(Field(data, "id"),
                                                         "MCP server not connected")]
  /\ SetHandler(c, h)

\* The end of handleClientMessage(data): the sanitized message is forwarded to
\* the MCP server, or refused when the server is not connected.
Forward(c, data, h, message, event, n) ==
  IF IsConnected(h)
  THEN \E s \in {SendToServer(h, c, message, now)} :
         /\ lastOut' = [NoOut EXCEPT !.connectionId = c, !.from = "client",
                                     !.input = data, !.handed = message,
                                     !.wire = s.wire, !.event = event,
                                     !.n = n, !.sanitized = TRUE]
         /\ SetHandler(c, s.h)
  ELSE /\ lastOut' = [NoOut EXCEPT !.connectionId = c, !.from = "client", !.input = data,
                                   !.event = event, !.n = n, !.sanitized = TRUE,
                                   !.toClient = ErrorResponse(Field(data, "id"),
                                                              "MCP server not connected")]
       /\ SetHandler(c, h)

\* handleClientMessage(data) from the call of sanitizeMessage on, for the n-th
\* message of its batch and the handler h.
SanitizeAndForward(c, data, h, n) ==
  \E r \in {SanitizeMessage(ClientSanitizer(c), data, "client_to_server",
                            Ctx(h.clientVault, minted), now)} :
    /\ ~r.ctx.exhausted
    /\ minted' = r.ctx.minted
    /\ IF r.threw
       THEN /\ lastOut' = [NoOut EXCEPT !.connectionId = c, !.from = "client",
                                        !.input = data, !.n = n,
                                        !.toClient = ErrorResponse(NoMessage,
                                                                   "Internal proxy error")]
            /\ SetHandler(c, [h EXCEPT !.clientVault = r.ctx.V])
       ELSE IF ~r.safe /\ StrictMode
       THEN /\ lastOut' = [NoOut EXCEPT !.connectionId = c, !.from = "client",
                                        !.input = data, !.n = n, !.sanitized = TRUE,
                                        !.event = SanitizationBlocked(r.violations),
                                        !.toClient = ErrorResponse(Field(data, "id"),
                                                       "Message contains forbidden content")]
            /\ SetHandler(c, [h EXCEPT !.clientVault = r.ctx.V, !.lastIndex = r.lastIndex])
       ELSE Forward(c, data, [h EXCEPT !.clientVault = r.ctx.V, !.lastIndex = r.lastIndex],
                    r.message, IF r.safe THEN NoEvent ELSE SanitizationBlocked(r.violations), n)

\* clientWs.on('message'): handleClientMessage(data), up to its first await or,
\* without a RateLimiter, to its end.  With a RateLimiter the call consumes
\* from its first limiter and waits; further 'message' events of the socket
\* may be emitted before the promise jobs run.
HandleClientMessage(c, data) ==
  /\ c \in DOMAIN conns
  /\ conns[c].clientWs = "OPEN"
  /\ \A other \in DOMAIN conns \ {c} : conns[other].pending = <<>>
  /\ ~conns[c].draining
  /\ Len(conns[c].pending) < MaxBatch
  /\ IF data = NotJson
     THEN /\ lastOut' = [NoOut EXCEPT !.connectionId = c, !.from = "client", !.input = data,
                                      !.toClient = ErrorResponse(NoMessage, "Invalid JSON format")]
          /\ UNCHANGED <<conns, connections, minted>>
     ELSE IF ~ValidateJsonRpc(data)
     THEN /\ lastOut' = [NoOut EXCEPT !.connectionId = c, !.from = "client", !.input = data,
                                      !.toClient = ErrorResponse(Field(data, "id"),
                                                                 "Invalid JSON-RPC message")]
          /\ UNCHANGED <<conns, connections, minted>>
     ELSE IF ~conns[c].hasRateLimiter
     THEN SanitizeAndForward(c, data, conns[c], Len(conns[c].pending) + 1)
     ELSE /\ \E r \in {IF LimitersFor(data) = <<>>
                       THEN [consumed |-> conns[c].consumed, ok |-> TRUE]
                       ELSE Consume(conns[c].consumed, Head(LimitersFor(data)))} :
               SetHandler(c, [conns[c] EXCEPT
                                !.consumed = r.consumed,
                                !.pending = Append(@, [data |-> data, n |-> Len(@) + 1,
                                                       left |-> IF LimitersFor(data) = <<>>
                                                                THEN <<>>
                                                                ELSE Tail(LimitersFor(data)),
                                                       ok |-> r.ok,
                                                       resume |-> LimitersFor(data) = <<>>])])
          /\ lastOut' = [NoOut EXCEPT !.connectionId = c, !.from = "client-await"]
          /\ UNCHANGED minted
  /\ UNCHANGED <<config, vault, keyToPlaceholder, connectionKeys, cleanupInterval, now,
                 last, san, flt, cli, proxyConfig, connectionCounter, stopped>>

\* The promise job at the head of the queue: the call of handleClientMessage
\* that waits longest goes on to its next await (the next limiter.consume of
\* checkLimit, or its return), or from `await checkLimit` to its end.
PromiseJob(c) ==
  /\ c \in DOMAIN conns
  /\ conns[c].pending # <<>>
  /\ LET e == Head(conns[c].pending)
         rest == Tail(conns[c].pending)
     IN  IF ~e.resume
         THEN /\ \E r \in {IF ~e.ok \/ e.left = <<>>
                           THEN [consumed |-> conns[c].consumed, ok |-> e.ok]
                           ELSE Consume(conns[c].consumed, Head(e.left))} :
                   SetHandler(c, [conns[c] EXCEPT
                                    !.draining = TRUE,
                                    !.consumed = r.consumed,
                                    !.pending = Append(rest,
                                       [e EXCEPT !.ok = r.ok,
                                                 !.resume = ~e.ok \/ e.left = <<>>,
                                                 !.left = IF ~e.ok \/ e.left = <<>>
                                                          THEN e.left ELSE Tail(e.left)])])
              /\ lastOut' = [NoOut EXCEPT !.connectionId = c, !.from = "client-await"]
              /\ UNCHANGED minted
         ELSE IF ~e.ok
         THEN /\ SetHandler(c, [conns[c] EXCEPT !.pending = rest, !.draining = rest # <<>>])
              /\ lastOut' = [NoOut EXCEPT !.connectionId = c, !.from = "client",
                                          !.input = e.data, !.n = e.n,
                                          !.event = [type |-> "rate_limit_exceeded",
                                                     violations |-> <<>>],
                                          !.toClient = ErrorResponse(Field(e.data, "id"),
                                                                     "Rate limit exceeded")]
              /\ UNCHANGED minted
         ELSE SanitizeAndForward(c, e.data,
                                 [conns[c] EXCEPT
                                    !.pending = rest, !.draining = rest # <<>>,
                                    !.admitted = [b \in DOMAIN @ |->
                                       IF \E i \in 1..Len(LimitersFor(e.data)) :
                                            LimitersFor(e.data)[i] = b
                                       THEN @[b] + 1 ELSE @[b]]],
                                 e.n)
  /\ UNCHANGED <<config, vault, keyToPlaceholder, connectionKeys, cleanupInterval, now,
                 last, san, flt, cli, proxyConfig, connectionCounter, stopped>>

\* clientWs.on('close'): handleClientClose()
HandleClientCloseEvent(c) ==
  /\ Quiet
  /\ c \in DOMAIN conns
  /\ conns[c].clientWs \in {"OPEN", "CLOSING"}
  /\ SetHandler(c, HandleClientClose([conns[c] EXCEPT !.clientWs = "CLOSED"]))
  /\ lastOut' = [NoOut EXCEPT !.connectionId = c, !.from = "client-close"]
  /\ UNCHANGED <<vaultVars, san, flt, cli, proxyConfig, connectionCounter, stopped>>

\* serverWs.on('open'): handleServerOpen()
HandleServerOpen(c) ==
  /\ Quiet
  /\ c \in DOMAIN conns
  /\ conns[c].socket = "CONNECTING"
  /\ \E r \in {FlushMessageQueue([conns[c] EXCEPT !.socket = "OPEN", !.connected = TRUE,
                                                   !.reconnectAttempts = 0], c, now)} :
       /\ SetHandler(c, r.h)
       /\ lastOut' = [NoOut EXCEPT !.connectionId = c, !.from = "server-open",
                                   !.wire = r.wire]
  /\ UNCHANGED <<vaultVars, san, flt, cli, proxyConfig, connectionCounter, stopped>>

\* serverWs.on('message'): handleServerMessage(data), and the 'message'
\* listener of ClientHandler.connect, which sanitizes and sends to the client.
HandleServerMessage(c, data) ==
  /\ Quiet
  /\ c \in DOMAIN conns
  /\ conns[c].socket = "OPEN"
  /\ IF ~ValidateServerMessage(data)
     THEN /\ lastOut' = [NoOut EXCEPT !.connectionId = c, !.from = "server", !.input = data]
          /\ UNCHANGED <<conns, connections, minted>>
     ELSE \E r \in {SanitizeMessage(ClientSanitizer(c), data, "client_to_server",
                                     Ctx(conns[c].clientVault, minted), now)} :
            /\ ~r.ctx.exhausted
            /\ SetHandler(c, [conns[c] EXCEPT !.clientVault = r.ctx.V,
                                              !.lastIndex = r.lastIndex])
            /\ minted' = r.ctx.minted
            /\ lastOut' = [NoOut EXCEPT !.connectionId = c, !.from = "server", !.input = data,
                                        !.toClient = IF ~r.threw /\ conns[c].clientWs = "OPEN"
                                                     THEN r.message ELSE NoMessage]
  /\ UNCHANGED <<config, vault, keyToPlaceholder, connectionKeys, cleanupInterval, now,
                 last, san, flt, cli, proxyConfig, connectionCounter, stopped>>

\* serverWs.on('close'): handleServerClose(code, reason)
HandleServerCloseEvent(c) ==
  /\ Quiet
  /\ c \in DOMAIN conns
  /\ conns[c].socket \in {"CONNECTING", "OPEN", "CLOSING"}
  /\ SetHandler(c, HandleServerClose([conns[c] EXCEPT !.socket = "CLOSED"]))
  /\ lastOut' = [NoOut EXCEPT !.connectionId = c, !.from = "server-close"]
  /\ UNCHANGED <<vaultVars, san, flt, cli, proxyConfig, connectionCounter, stopped>>

\* The setTimeout callback of handleReconnect: connect() unless closing.
ReconnectTimer(c) ==
  /\ Quiet
  /\ c \in DOMAIN conns
  /\ conns[c].reconnectTimer
  /\ SetHandler(c, IF conns[c].serverIsClosing
                   THEN [conns[c] EXCEPT !.reconnectTimer = FALSE, !.delay = 0]
                   ELSE [conns[c] EXCEPT !.reconnectTimer = FALSE, !.delay = 0,
                                         !.serverWs = TRUE, !.socket = "CONNECTING"])
  /\ lastOut' = [NoOut EXCEPT !.connectionId = c, !.from = "timer"]
  /\ UNCHANGED <<vaultVars, san, flt, cli, proxyConfig, connectionCounter, stopped>>

\* stop(): close() on every handler of the table, then connections.clear().
Stop ==
  /\ Quiet
  /\ ~stopped
  /\ stopped' = TRUE
  /\ conns' = [c \in DOMAIN conns |->
                 IF c \in connections THEN ClientHandlerClose(conns[c]) ELSE conns[c]]
  /\ connections' = {}
  /\ lastOut' = [NoOut EXCEPT !.from = "stop"]
  /\ UNCHANGED <<vaultVars, san, flt, cli, proxyConfig, connectionCounter>>

NextProxy ==
  \/ HandleConnection
  \/ \E c \in DOMAIN conns, data \in ClientData : HandleClientMessage(c, data)
  \/ \E c \in DOMAIN conns : HandleClientCloseEvent(c)
  \/ \E c \in DOMAIN conns : HandleServerOpen(c)
  \/ \E c \in DOMAIN conns, data \in ServerData : HandleServerMessage(c, data)
  \/ \E c \in DOMAIN conns : HandleServerCloseEvent(c)
  \/ \E c \in DOMAIN conns : ReconnectTimer(c)
  \/ Stop

SpecProxy == InitProxy /\ [][NextProxy]_vars

\* The proxy with a rate limit configured: clients connect, send and leave,
\* and the MCP server accepts its connections and sends nothing.
NextRate ==
  \/ HandleConnection
  \/ \E c \in DOMAIN conns, data \in RateData : HandleClientMessage(c, data)
  \/ \E c \in DOMAIN conns : PromiseJob(c)
  \/ \E c \in DOMAIN conns : HandleClientCloseEvent(c)
  \/ \E c \in DOMAIN conns : HandleServerOpen(c)

SpecRate == InitRate /\ [][NextRate]_vars

\* The proxy in strict mode, without and with a limit of 2 requests a minute
\* per client: every kind of rejection of a client message can happen.
RejectConfigs ==
  [apiKeyProtection : {TRUE}, autoReconnect : {FALSE}, strictMode : {TRUE},
   patterns : {TRUE}, maxConnections : {2}, proxy : {DefaultProxy},
   rateLimiting : {RateLimiting(FALSE, "none", 0), RateLimiting(TRUE, "client/minute", 2)}]

\* What the clients send: a request with a secret, a request with a shell
\* metacharacter, a request with both, a message that is no JSON-RPC 2.0, and
\* text that is no JSON.
RejectData == {Request(Key1), RequestWithId(<<";">>, 7), Request(Key1 \o <<" ", ";">>),
               Obj(<<Entry("method", Str(<<"o">>))>>), NotJson}

InitReject == InitProxyWith(RejectConfigs)

NextReject ==
  \/ HandleConnection
  \/ \E c \in DOMAIN conns, data \in RejectData : HandleClientMessage(c, data)
  \/ \E c \in DOMAIN conns : PromiseJob(c)
  \/ \E c \in DOMAIN conns : HandleClientCloseEvent(c)
  \/ \E c \in DOMAIN conns : HandleServerOpen(c)

SpecReject == InitReject /\ [][NextReject]_vars

\* -------------------------------------------------- the RateLimiter alone

\* The rate_limiting configurations of SpecLimiter: every limiter is not set
\* or allows 1 request, the minute limiters also 2.
LimiterConfigs ==
  {[apiKeyProtection |-> FALSE, autoReconnect |-> FALSE, strictMode |-> FALSE,
    patterns |-> TRUE, maxConnections |-> 2, proxy |-> DefaultProxy,
    rateLimiting |-> [enabled |-> TRUE, points |-> p]] :
     p \in {q \in [DOMAIN NoPoints -> 0..2] :
              \A b \in {"global/hour", "client/hour", "method/hour"} : q[b] <= 1}}

\* The messages whose method is given to checkLimit: the method "o", which
\* per_method names, a method it does not name, and no method.
LimiterData ==
  {Request(<<"o">>), Response(<<"o">>),
   Obj(<<Entry("jsonrpc", Str(<<"2.0">>)), Entry("method", Str(<<"p">>))>>)}

\* new RateLimiter(config.rate_limiting)
InitLimiter ==
  /\ config = [enabled |-> TRUE, encryption |-> TRUE]
  /\ vault = EmptyMap
  /\ keyToPlaceholder = EmptyMap
  /\ connectionKeys = EmptyMap
  /\ cleanupInterval = (Ttl > 0)
  /\ now = 0
  /\ minted = EmptyMap
  /\ last = NoCall
  /\ san = SanIdle
  /\ flt = [NoFilterCall EXCEPT !.filter = "limiter"]
  /\ cli = NoCli
  /\ proxyConfig \in LimiterConfigs
  /\ connections = {}
  /\ connectionCounter = 0
  /\ conns = EmptyMap
  /\ stopped = FALSE
  /\ lastOut = NoOut

\* await rateLimiter.checkLimit(clientId, message.method), within one window
\* of every limiter.
CheckLimitCall(message) ==
  /\ flt.filter = "limiter"
  /\ flt.calls < MaxChecks
  /\ \E r \in {CheckLimit(flt.consumed, LimitersFor(message))} :
       flt' = [flt EXCEPT !.input = message, !.done = TRUE, !.op = "checkLimit",
                          !.calls = @ + 1, !.allowed = r.ok, !.consumed = r.consumed]
  /\ UNCHANGED <<vaultVars, san, cli, proxyVars>>

NextLimiter == \E message \in LimiterData : CheckLimitCall(message)

SpecLimiter == InitLimiter /\ [][NextLimiter]_vars

\* ------------------------------------------------- the ServerHandler alone

\* The messages given to sendToServer.
LegData == {Request(<<"o">>), Response(<<"o">>), Request(<<"B">>)}

\* One ServerHandler after connect(), with and without auto_reconnect and a
\* Sanitizer.
LegConfigs ==
  [apiKeyProtection : BOOLEAN, autoReconnect : BOOLEAN, strictMode : {FALSE},
   patterns : {TRUE}, maxConnections : {2}, proxy : {DefaultProxy}, rateLimiting : {RateLimiting(FALSE, "none", 0)}]

InitLeg ==
  /\ config = [enabled |-> TRUE, encryption |-> TRUE]
  /\ vault = EmptyMap
  /\ keyToPlaceholder = EmptyMap
  /\ connectionKeys = EmptyMap
  /\ cleanupInterval = (Ttl > 0)
  /\ now = 0
  /\ minted = EmptyMap
  /\ last = NoCall
  /\ san = SanIdle
  /\ flt = NoFilterCall
  /\ cli = NoCli
  /\ proxyConfig \in LegConfigs
  /\ connections = {ConnectionName[1]}
  /\ connectionCounter = 1
  /\ conns = MapSet(EmptyMap, ConnectionName[1], NewHandler)
  /\ stopped = FALSE
  /\ lastOut = NoOut

\* A call of serverHandler.sendToServer(message).
SendToServerCall(c, message) ==
  /\ c \in DOMAIN conns
  /\ \E r \in {SendToServer(conns[c], c, message, now)} :
       /\ SetHandler(c, r.h)
       /\ lastOut' = [NoOut EXCEPT !.connectionId = c, !.from = "send",
                                   !.handed = message, !.wire = r.wire]
  /\ UNCHANGED <<vaultVars, san, flt, cli, proxyConfig, connectionCounter, stopped>>

\* A call of serverHandler.close().
ServerHandlerCloseCall(c) ==
  /\ c \in DOMAIN conns
  /\ ~conns[c].serverIsClosing
  /\ SetHandler(c, ServerHandlerClose(conns[c]))
  /\ lastOut' = [NoOut EXCEPT !.connectionId = c, !.from = "server-handler-close"]
  /\ UNCHANGED <<vaultVars, san, flt, cli, proxyConfig, connectionCounter, stopped>>

NextLeg ==
  \/ \E c \in DOMAIN conns, message \in LegData : SendToServerCall(c, message)
  \/ \E c \in DOMAIN conns : ServerHandlerCloseCall(c)
  \/ \E c \in DOMAIN conns : HandleServerOpen(c)
  \/ \E c \in DOMAIN conns : HandleServerCloseEvent(c)
  \/ \E c \in DOMAIN conns : ReconnectTimer(c)

SpecLeg == InitLeg /\ [][NextLeg]_vars

\* ----------------------------------------------------- the command line

\* resolve(process.cwd(), 'mcproxy-config.yaml'), and path.join(process.cwd(),
\* configPath) of a relative path.
ResolvePath(configPath) == <<"cwd", configPath>>
DefaultConfigPath == ResolvePath("mcproxy-config.yaml")

\* The configuration that loadConfig returns when it cannot read the file.
DefaultConfig ==
  [apiKeyProtection |-> FALSE, autoReconnect |-> FALSE, strictMode |-> FALSE,
   patterns |-> FALSE, maxConnections |-> 100, proxy |-> DefaultProxy,
   rateLimiting |-> RateLimiting(FALSE, "none", 0)]

\* loadConfig(configPath): the parsed content of the file, or the default.
LoadConfig(files, fullPath) ==
  IF MapHas(files, fullPath) THEN files[fullPath] ELSE DefaultConfig

\* parseInt(options.port)
ParseInt(s) ==
  CASE s = "8080" -> 8080
    [] s = "9000" -> 9000
    [] OTHER -> 0

\* main(): the configuration of options.config with the options written
\* over it.
MainConfig(c) ==
  [LoadConfig(c.files, ResolvePath(c.options.config)) EXCEPT
     !.proxy = [port |-> ParseInt(c.options.port), host |-> c.options.host,
                mcpServerUrl |-> c.options.server],
     !.strictMode = IF c.options.strict THEN TRUE ELSE @]

\* The argument of new MCPProxyServer(...) in main().
ServerArgs(c) ==
  [port |-> MainConfig(c).proxy.port, host |-> MainConfig(c).proxy.host,
   mcpServerUrl |-> MainConfig(c).proxy.mcpServerUrl]

\* The constructor of MCPProxyServer: this.config = loadConfig(); the
\* argument goes into a local that is logged.
ServerConfig(args, files) == LoadConfig(files, DefaultConfigPath)

\* Two configuration files: the rules of the tests, and the same with strict
\* mode and another address.
FileA == [DefaultConfig EXCEPT !.patterns = TRUE, !.maxConnections = 2]
FileB ==
  [FileA EXCEPT !.strictMode = TRUE,
                !.proxy = [port |-> 7000, host |-> "127.0.0.1",
                           mcpServerUrl |-> "ws://mcp:4000"]]

\* The command lines: the defaults of the options and other values, with no
\* file, the default file, or both files on the disk.
CliRuns ==
  {[options |-> o, files |-> f] :
     o \in [config : {"mcproxy-config.yaml", "other.yaml"}, port : {"8080", "9000"},
            host : {"0.0.0.0"}, server : {"ws://localhost:3000", "ws://mcp:4000"},
            strict : BOOLEAN],
     f \in {EmptyMap, MapSet(EmptyMap, DefaultConfigPath, FileA),
            MapSet(MapSet(EmptyMap, DefaultConfigPath, FileA),
                   ResolvePath("other.yaml"), FileB)}}

\* The client messages of SpecCli.
CliData == {Request(<<"o">>), RequestWithId(<<";">>, 7)}

\* main() has run to the end of proxy.start(): the server listens.
InitCli ==
  /\ config = [enabled |-> TRUE, encryption |-> TRUE]
  /\ vault = EmptyMap
  /\ keyToPlaceholder = EmptyMap
  /\ connectionKeys = EmptyMap
  /\ cleanupInterval = (Ttl > 0)
  /\ now = 0
  /\ minted = EmptyMap
  /\ last = NoCall
  /\ san = SanIdle
  /\ flt = NoFilterCall
  /\ cli \in CliRuns
  /\ proxyConfig = ServerConfig(ServerArgs(cli), cli.files)
  /\ connections = {}
  /\ connectionCounter = 0
  /\ conns = EmptyMap
  /\ stopped = FALSE
  /\ lastOut = [NoOut EXCEPT !.from = "listen",
                             !.listen = [host |-> proxyConfig.proxy.host,
                                         port |-> proxyConfig.proxy.port]]

NextCli ==
  \/ HandleConnection
  \/ \E c \in DOMAIN conns, data \in CliData : HandleClientMessage(c, data)
  \/ \E c \in DOMAIN conns : HandleClientCloseEvent(c)
  \/ \E c \in DOMAIN conns : HandleServerOpen(c)

SpecCli == InitCli /\ [][NextCli]_vars

\* ------------------------------------------------------ the filters alone

\* The strings of at most n code units of the alphabet.
StringsOver(alphabet, n) == UNION {[1..k -> alphabet] : k \in 0..n}

\* The inputs of AnsiFilter.filter: CSI, OSC, ESC 7 and lone ESC in every
\* order, a DCS sequence, and an ESC next to the written-out text \x1b[.
AnsiInputs ==
  StringsOver({"ESC", "[", "1", "m", "7", "]", "BEL"}, MaxFilterLen)
    \cup {<<"ESC", "P", "o", "ESC", "\\">>, <<"\\x1b", "[", "ESC", "o">>,
          <<"o", "ESC", "[", "1", ";", "1", "m", "o">>}

\* The configurations of an AnsiFilter.
AnsiConfigs == {AnsiConfig(TRUE, a) : a \in {"", "strip", "reject", "encode"}}
                 \cup {AnsiConfig(FALSE, "strip")}

\* The inputs of CharacterWhitelist.filter: printable text, control and
\* zero-width characters and the two halves of a surrogate pair, in every
\* order.
WhitelistInputs ==
  StringsOver({"o", "ESC", "NUL", "ZWSP", "x9b", "D83C", "DF0D"}, MaxFilterLen)

\* The configurations of a CharacterWhitelist: the one of the tests, one
\* without ranges and blacklist, one that also allows U+1F300 to U+1F5FF, one
\* that allows the whole basic plane, and a disabled one.
WhitelistConfigs ==
  {WhitelistConfig(TRUE, <<<<32, 126>>>>, <<27, 127>>),
   WhitelistConfig(TRUE, <<>>, <<>>),
   WhitelistConfig(TRUE, <<<<32, 126>>, <<127744, 128511>>>>, <<27, 127>>),
   WhitelistConfig(TRUE, <<<<32, 65535>>>>, <<27, 127>>),
   WhitelistConfig(FALSE, <<<<32, 126>>>>, <<27, 127>>)}

\* The inputs of PatternMatcher.match and check.
PatternInputs == StringsOver({"o", ";", "../"}, MaxFilterLen)

\* The configurations of a PatternMatcher: the rules of the tests, the same
\* with the actions strip and log, and a disabled matcher.
PatternConfigs ==
  {PatternConfig(TRUE, <<Rule(PatternRules[1], "reject"), Rule(PatternRules[2], "")>>),
   PatternConfig(TRUE, <<Rule(PatternRules[1], "strip"), Rule(PatternRules[2], "log")>>),
   PatternConfig(TRUE, <<Rule(PatternRules[1], "log"), Rule(PatternRules[2], "strip")>>),
   PatternConfig(FALSE, <<Rule(PatternRules[1], "reject")>>)}

\* An ApiKeyVault that holds nothing, and after storeKey of one and of two
\* keys of conn-1.
StoredVaults ==
  {EmptyVault,
   StoreKey(EmptyVault, Key1, "conn-1", "openai", 0, PlaceholderOf(1)).V,
   StoreKey(StoreKey(EmptyVault, Key1, "conn-1", "openai", 0, PlaceholderOf(1)).V,
            Key2, "conn-1", "openai", 0, PlaceholderOf(2)).V}

\* The strings given to isPlaceholder: placeholders, 'MCPROXY_KEY_INVALID',
\* the bare prefix, a key, and text with a placeholder in it.
IsPlaceholderArgs ==
  Placeholders \cup {<<"M", "o">>, <<"M">>, <<"o">>, Key1, <<"o">> \o PlaceholderOf(1)}

\* Messages for validateJsonRpc and validateServerMessage, field by field:
\* jsonrpc absent, "2.0" or "1.0"; method absent, a name, "", 5 or 0; result
\* absent, null, 0, false, "" or an object; error absent, null or an object.
JsonrpcFields ==
  <<<<>>, <<Entry("jsonrpc", Str(<<"2.0">>))>>, <<Entry("jsonrpc", Str(<<"1.0">>))>>>>
MethodFields ==
  <<<<>>, <<Entry("method", Str(<<"o">>))>>, <<Entry("method", Str(<<>>))>>,
    <<Entry("method", Num(5))>>, <<Entry("method", Num(0))>>>>
ResultFields ==
  <<<<>>, <<Entry("result", JsonNull)>>, <<Entry("result", Num(0))>>,
    <<Entry("result", Bool(FALSE))>>, <<Entry("result", Str(<<>>))>>,
    <<Entry("result", Obj(<<Entry("k", Str(<<"o">>))>>))>>>>
ErrorFields ==
  <<<<>>, <<Entry("error", JsonNull)>>, <<Entry("error", Obj(<<Entry("code", Num(1))>>))>>>>

ValidateInput(j, m, r, e) ==
  Obj(JsonrpcFields[j] \o MethodFields[m] \o ResultFields[r] \o ErrorFields[e])

\* A filter is constructed and is about to be called on an input.
InitFilter ==
  /\ config = [enabled |-> TRUE, encryption |-> TRUE]
  /\ vault = EmptyMap
  /\ keyToPlaceholder = EmptyMap
  /\ connectionKeys = EmptyMap
  /\ cleanupInterval = (Ttl > 0)
  /\ now = 0
  /\ minted = EmptyMap
  /\ last = NoCall
  /\ san = SanIdle
  /\ cli = NoCli
  /\ ProxyIdle
  /\ \/ flt \in {[NoFilterCall EXCEPT !.filter = "ansi", !.cfg = c, !.input = s] :
                    c \in AnsiConfigs, s \in AnsiInputs}
     \/ flt \in {[NoFilterCall EXCEPT !.filter = "whitelist", !.cfg = c, !.input = s] :
                    c \in WhitelistConfigs, s \in WhitelistInputs}
     \/ flt \in {[NoFilterCall EXCEPT !.filter = "pattern", !.cfg = c] :
                    c \in PatternConfigs}
     \/ flt \in {[NoFilterCall EXCEPT !.filter = "vault", !.cfg = V, !.input = s] :
                    V \in StoredVaults, s \in IsPlaceholderArgs}
     \/ \E j \in DOMAIN JsonrpcFields, m \in DOMAIN MethodFields,
           r \in DOMAIN ResultFields, e \in DOMAIN ErrorFields :
          flt = [NoFilterCall EXCEPT !.filter = "validate",
                                     !.input = ValidateInput(j, m, r, e)]

\* ansiFilter.filter(input)
AnsiFilterCall ==
  /\ flt.filter = "ansi"
  /\ ~flt.done
  /\ \E r \in {AnsiFilterFilter(flt.cfg, flt.input)} :
       flt' = [flt EXCEPT !.done = TRUE, !.filtered = r.filtered,
                          !.violations = r.violations]
  /\ UNCHANGED <<vaultVars, san, cli, proxyVars>>

\* charWhitelist.filter(input)
CharacterWhitelistCall ==
  /\ flt.filter = "whitelist"
  /\ ~flt.done
  /\ \E r \in {CharacterWhitelistFilter(flt.cfg, flt.input)} :
       flt' = [flt EXCEPT !.done = TRUE, !.filtered = r.filtered,
                          !.violations = r.violations]
  /\ UNCHANGED <<vaultVars, san, cli, proxyVars>>

\* patternMatcher.match(input)
PatternMatchCall(input) ==
  /\ flt.filter = "pattern"
  /\ flt.calls < MaxFilterCalls
  /\ \E r \in {PatternMatcherMatch(flt.cfg, input, flt.lastIndex)} :
       flt' = [flt EXCEPT !.input = input, !.done = TRUE, !.op = "match",
                          !.calls = @ + 1, !.filtered = input, !.matched = r.matched,
                          !.violations = r.violations, !.allowed = TRUE,
                          !.matches = <<>>, !.lastIndex = r.lastIndex]
  /\ UNCHANGED <<vaultVars, san, cli, proxyVars>>

\* patternMatcher.check(input, context)
PatternCheckCall(input) ==
  /\ flt.filter = "pattern"
  /\ flt.calls < MaxFilterCalls
  /\ \E r \in {PatternMatcherCheck(flt.cfg, input, flt.lastIndex)} :
       flt' = [flt EXCEPT !.input = input, !.done = TRUE, !.op = "check",
                          !.calls = @ + 1, !.filtered = r.sanitized, !.matched = FALSE,
                          !.violations = <<>>, !.allowed = r.allowed,
                          !.matches = r.matches, !.lastIndex = r.lastIndex]
  /\ UNCHANGED <<vaultVars, san, cli, proxyVars>>

\* vault.isPlaceholder(value)
IsPlaceholderCall ==
  /\ flt.filter = "vault"
  /\ ~flt.done
  /\ flt' = [flt EXCEPT !.done = TRUE, !.matched = IsPlaceholder(flt.cfg, flt.input)]
  /\ UNCHANGED <<vaultVars, san, cli, proxyVars>>

\* clientHandler.validateJsonRpc(message)
ValidateJsonRpcCall ==
  /\ flt.filter = "validate"
  /\ ~flt.done
  /\ flt' = [flt EXCEPT !.done = TRUE, !.op = "validateJsonRpc",
                        !.allowed = ValidateJsonRpc(flt.input)]
  /\ UNCHANGED <<vaultVars, san, cli, proxyVars>>

\* serverHandler.validateServerMessage(message)
ValidateServerMessageCall ==
  /\ flt.filter = "validate"
  /\ ~flt.done
  /\ flt' = [flt EXCEPT !.done = TRUE, !.op = "validateServerMessage",
                        !.allowed = ValidateServerMessage(flt.input)]
  /\ UNCHANGED <<vaultVars, san, cli, proxyVars>>

NextFilter ==
  \/ ValidateJsonRpcCall
  \/ ValidateServerMessageCall
  \/ IsPlaceholderCall
  \/ AnsiFilterCall
  \/ CharacterWhitelistCall
  \/ \E input \in PatternInputs : PatternMatchCall(input)
  \/ \E input \in PatternInputs : PatternCheckCall(input)

SpecFilter == InitFilter /\ [][NextFilter]_vars

\* ------------------------------------------------- the ApiKeyDetector alone

\* The inputs of detect: two lower-case hex letters, a digit, an upper-case
\* letter, a lower-case letter that is no hex digit, the word test and the
\* extension .txt, in every order.
DetectInputs == StringsOver({"a", "b", "1", "A", "o", "t", ".x"}, MaxDetectLen)

\* new ApiKeyDetector({customPatterns: [{name: 'potential_key', ...}]}), about
\* to be called on an input.
InitDetect ==
  /\ config = [enabled |-> TRUE, encryption |-> TRUE]
  /\ vault = EmptyMap
  /\ keyToPlaceholder = EmptyMap
  /\ connectionKeys = EmptyMap
  /\ cleanupInterval = (Ttl > 0)
  /\ now = 0
  /\ minted = EmptyMap
  /\ last = NoCall
  /\ san = SanIdle
  /\ cli = NoCli
  /\ ProxyIdle
  /\ \E input \in DetectInputs :
       flt = [NoFilterCall EXCEPT !.filter = "detector", !.input = input]

\* detector.detect(input)
DetectCall ==
  /\ flt.filter = "detector"
  /\ ~flt.done
  /\ flt' = [flt EXCEPT !.done = TRUE, !.op = "detect", !.calls = @ + 1,
                        !.matches = DetectAll(flt.input)]
  /\ UNCHANGED <<vaultVars, san, cli, proxyVars>>

NextDetect == DetectCall

SpecDetect == InitDetect /\ [][NextDetect]_vars

\* ------------------------------------------------------ claims on the proxy

\* A timer that was set fires.  Nothing else is scheduled by the code: the
\* events of the two sockets and stop() come from outside.
SpecProxyLive ==
  SpecProxy /\ \A i \in 1..MaxConnectionAttempts : WF_vars(ReconnectTimer(ConnectionName[i]))

\* The client's socket of connection c has closed.
ClientTransportClosed(c) == c \in DOMAIN conns /\ conns[c].clientWs = "CLOSED"

\* Connection c is torn down: its ServerHandler is closed, its ClientHandler
\* has emitted 'close' and the table no longer holds it.
TornDown(c) ==
  /\ c \in DOMAIN conns
  /\ conns[c].serverIsClosing
  /\ ~conns[c].serverWs
  /\ conns[c].closeEmitted
  /\ c \notin connections

\* C2: coordinated teardown on client close. Whenever the client's socket of a
\* connection closes, eventually the connection's ServerHandler is closed, its
\* ClientHandler has emitted 'close' and the connection is out of the table.
C2_ClientCloseTearsDown ==
  \A i \in 1..MaxConnectionAttempts :
    ClientTransportClosed(ConnectionName[i]) ~> TornDown(ConnectionName[i])

\* Connection c has reached Closed: it was accepted and is out of the table.
Closed(c) == c \in DOMAIN conns /\ c \notin connections

\* The records that the vault V holds for connection c.
RecordsOf(V, c) == {p \in DOMAIN V.vault : V.vault[p].connectionId = c}

SecretsIn(message) ==
  LET leaves == StringLeaves(message) IN
  UNION {{Detect(leaves[i])[j] : j \in 1..Len(Detect(leaves[i]))} : i \in 1..Len(leaves)}

\* C4: the client-to-server path with secret protection enabled. The message
\* that handleClientMessage hands to sendToServer carries no secret, only
\* placeholders, and the message written to the server's socket is the
\* client's message with its secrets back in place.
C4_ClientPathSubstitution ==
  (/\ lastOut.from = "client"
   /\ proxyConfig.apiKeyProtection
   /\ lastOut.handed # NoMessage) =>
     /\ SecretsIn(lastOut.handed) = {}
     /\ lastOut.wire = lastOut.input

\* C6: a message of the MCP server on its way to the client. Handling it
\* stores nothing: no placeholder is minted, the vaults of all connections stay
\* as they are, and what is sent to the client is the server's message, its
\* placeholder text included.
C6_ServerMessageFrame ==
  [][\A c \in DOMAIN conns, data \in ServerData :
       HandleServerMessage(c, data) =>
         /\ minted' = minted
         /\ \A d \in DOMAIN conns :
              /\ conns'[d].clientVault = conns[d].clientVault
              /\ conns'[d].serverVault = conns[d].serverVault
         /\ lastOut'.toClient \in {NoMessage, data}
         /\ (ValidateServerMessage(data) /\ conns[c].clientWs = "OPEN")
              => lastOut'.toClient = data]_vars

\* With protection enabled, a server message that carries the text of a
\* placeholder and a secret was sent to the client.
C6_Witness ==
  /\ proxyConfig.apiKeyProtection
  /\ lastOut.from = "server"
  /\ lastOut.toClient = Response(PlaceholderOf(1) \o <<" ">> \o Key1)
  /\ SecretsIn(lastOut.toClient) # {}

\* response is a JSON-RPC error response with the given id, code and message.
IsErrorWith(response, id, code, text) ==
  /\ response.t = "obj"
  /\ Field(response, "jsonrpc") = Str(<<"2.0">>)
  /\ Field(response, "error")
       = Obj(<<Entry("code", Num(code)), Entry("message", Str(<<text>>))>>)
  /\ Field(response, "id").t = id.t
  /\ Field(response, "id").v = id.v

\* The step is handleClientMessage(data) on connection c.
ClientMessageStep(c, data) ==
  /\ c \in DOMAIN conns
  /\ conns[c].clientWs = "OPEN"
  /\ lastOut'.from = "client"
  /\ lastOut'.connectionId = c
  /\ lastOut'.input = data

\* What sanitizeMessage returns for data on connection c in this state.
Sanitized(c, data) ==
  SanitizeMessage(ClientSanitizer(c), data, "client_to_server",
                  Ctx(conns[c].clientVault, minted), now)

\* C13: strict-mode block. With strict_mode enabled a client message whose
\* sanitization records a violation is not handed to sendToServer, the client
\* receives one error response with code -32603, the message "Message contains
\* forbidden content" and the id of the request, and a sanitization_blocked
\* security event with the violations is emitted; with strict_mode disabled
\* the sanitized message is forwarded although violations were recorded.
C13_StrictModeBlock ==
  [][\A c \in DOMAIN conns : \A data \in ClientData :
       (/\ ClientMessageStep(c, data)
        /\ data # NotJson
        /\ ValidateJsonRpc(data)
        /\ Field(data, "id").t # "none"
        /\ Sanitized(c, data).violations # <<>>)
       => IF proxyConfig.strictMode
          THEN /\ lastOut'.handed = NoMessage
               /\ lastOut'.wire = NoMessage
               /\ IsErrorWith(lastOut'.toClient, Field(data, "id"), 0 - 32603,
                              "Message contains forbidden content")
               /\ lastOut'.event = [type |-> "sanitization_blocked",
                                    violations |-> Sanitized(c, data).violations]
          ELSE IsConnected(conns[c]) => lastOut'.handed = Sanitized(c, data).message]_vars

\* Limiter b is configured and applies to the message.
AppliesTo(b, message) ==
  \E i \in 1..Len(LimitersFor(message)) : LimitersFor(message)[i] = b

\* C15: rate-limiter monotonicity. Within one window, of the messages of a
\* connection to which a limiter of capacity N applies at most N are admitted
\* and forwarded; every further one is rejected with the error -32603 "Rate
\* limit exceeded", is not forwarded, and produces a rate_limit_exceeded
\* security event.
C15_RateLimitMonotone ==
  /\ [](\A c \in DOMAIN conns : \A b \in DOMAIN conns[c].admitted :
          proxyConfig.rateLimiting.points[b] > 0
            => conns[c].admitted[b] <= proxyConfig.rateLimiting.points[b])
  /\ [][\A c \in DOMAIN conns : \A data \in RateData :
          (/\ ClientMessageStep(c, data)
           /\ lastOut'.n > 0
           /\ \E b \in DOMAIN conns[c].admitted :
                /\ AppliesTo(b, data)
                /\ conns[c].admitted[b] >= proxyConfig.rateLimiting.points[b])
          => /\ lastOut'.handed = NoMessage
             /\ lastOut'.wire = NoMessage
             /\ ~lastOut'.sanitized
             /\ Field(lastOut'.toClient, "error")
                  = Obj(<<Entry("code", Num(0 - 32603)),
                          Entry("message", Str(<<"Rate limit exceeded">>))>>)
             /\ lastOut'.event.type = "rate_limit_exceeded"]_vars

\* The third request of a connection was rejected after two were admitted
\* under a limit of 2 a minute per client, with the MCP server connected.
C15_Witness ==
  /\ lastOut.event.type = "rate_limit_exceeded"
  /\ lastOut.connectionId \in DOMAIN conns
  /\ IsConnected(conns[lastOut.connectionId])
  /\ conns[lastOut.connectionId].admitted["client/minute"] = 2
  /\ proxyConfig.rateLimiting.points["client/minute"] = 2

\* The messages admitted under limiter b on the first i connections.
RECURSIVE AdmittedOnAll(_, _)
AdmittedOnAll(b, i) ==
  IF i = 0 THEN 0
  ELSE AdmittedOnAll(b, i - 1)
         + (IF ConnectionName[i] \in DOMAIN conns THEN conns[ConnectionName[i]].admitted[b]
            ELSE 0)

\* C16: the RateLimiter is shared by all connections. With
\* global.requests_per_minute = N at most N messages are admitted within one
\* window, summed over all connections, in any interleaving of their messages.
C16_GlobalBucketShared ==
  proxyConfig.rateLimiting.points["global/minute"] > 0
    => AdmittedOnAll("global/minute", MaxConnectionAttempts)
         <= proxyConfig.rateLimiting.points["global/minute"]

\* C17: connection admission. The connection table never holds more than
\* max_connections entries; a session that arrives when the table holds
\* max_connections entries is closed with code 1008, is not registered and
\* gets no ServerHandler, then or later; a session that arrives when the table
\* holds fewer is registered, with a ServerHandler, under an id that no
\* session had before.
C17_ConnectionAdmission ==
  /\ [](Cardinality(connections) <= proxyConfig.maxConnections)
  /\ [][/\ connectionCounter' >= connectionCounter
        /\ \A id \in (DOMAIN conns' \ DOMAIN conns) \cup (connections' \ connections) :
             /\ connectionCounter' = connectionCounter + 1
             /\ id = ConnectionName[connectionCounter']
             /\ lastOut'.from = "accepted"
        /\ connectionCounter' = connectionCounter + 1
             => IF Cardinality(connections) >= proxyConfig.maxConnections
                THEN /\ lastOut'.closeCode = 1008
                     /\ connections' = connections
                     /\ conns' = conns
                ELSE /\ lastOut'.connectionId = ConnectionName[connectionCounter']
                     /\ lastOut'.connectionId \notin DOMAIN conns
                     /\ connections' = connections \cup {lastOut'.connectionId}
                     /\ lastOut'.connectionId \in DOMAIN conns'
                     /\ conns'[lastOut'.connectionId].serverWs]_vars

\* A session was closed with 1008 while the table was full.
C17_Witness ==
  /\ lastOut.from = "rejected"
  /\ lastOut.closeCode = 1008
  /\ Cardinality(connections) = proxyConfig.maxConnections
  /\ lastOut.connectionId \notin DOMAIN conns

\* The ServerHandler of h waits for a reconnect: its socket closed without
\* close() having been called, and a reconnect is scheduled or under way.
Reconnecting(h) ==
  /\ ~h.serverIsClosing
  /\ ~h.connected
  /\ h.reconnectAttempts > 0
  /\ h.reconnectTimer \/ (h.serverWs /\ h.socket = "CONNECTING")

\* C18: reconnect with queueing. A client message that arrives while the
\* ServerHandler is reconnecting is put at the end of the queue, not lost and
\* not answered with an error; when the reconnect succeeds the queue is sent
\* to the MCP server in its order and is empty before a later message is
\* taken.
C18_ReconnectQueueing ==
  [][\A c \in DOMAIN conns :
       /\ \A data \in ClientData :
            (/\ ClientMessageStep(c, data)
             /\ data # NotJson
             /\ ValidateJsonRpc(data)
             /\ Reconnecting(conns[c])
             /\ ~Sanitized(c, data).threw
             /\ Sanitized(c, data).safe
             /\ Len(conns[c].messageQueue) < MaxQueueSize)
            => /\ lastOut'.toClient = NoMessage
               /\ Len(conns'[c].messageQueue) = Len(conns[c].messageQueue) + 1
               /\ SubSeq(conns'[c].messageQueue, 1, Len(conns[c].messageQueue))
                    = conns[c].messageQueue
       /\ (/\ Reconnecting(conns[c])
           /\ lastOut'.from = "server-open"
           /\ lastOut'.connectionId = c)
          => /\ conns'[c].messageQueue = <<>>
             /\ conns[c].messageQueue # <<>> => lastOut'.wire # NoMessage]_vars

\* C19: per-connection ordering. The client messages of a connection are
\* sanitized and forwarded in the order of their arrival: sanitizeMessage is
\* not called on a message while a message of the connection that arrived
\* before it is neither forwarded nor dropped, whatever the methods and the
\* rate limits are.
C19_ArrivalOrder ==
  [][\A c \in DOMAIN conns :
       (/\ lastOut'.from = "client"
        /\ lastOut'.connectionId = c
        /\ lastOut'.sanitized)
       => \A i \in 1..Len(conns[c].pending) : conns[c].pending[i].n >= lastOut'.n]_vars

\* The delays of the reconnect attempts 1 to 5 in seconds, with
\* reconnectDelay of one second.
BackoffSeconds == <<1, 2, 4, 8, 16>>

\* The step sets the reconnect timer of connection c.
ReconnectScheduled(c) == ~conns[c].reconnectTimer /\ conns'[c].reconnectTimer

\* The step is the server socket's close of connection c with close() not
\* called and every reconnect attempt used.
AttemptsExhausted(c) ==
  /\ lastOut'.from = "server-close"
  /\ lastOut'.connectionId = c
  /\ proxyConfig.autoReconnect
  /\ ~conns[c].serverIsClosing
  /\ conns[c].reconnectAttempts >= MaxReconnectAttempts

\* C20: reconnection backoff. The k-th consecutive reconnect attempt is
\* scheduled reconnectDelay * 2^(k-1) after the close, and k is at most
\* maxReconnectAttempts; an open of the server socket resets the counter; when
\* the attempts are used up the ServerHandler emits 'close' and the
\* ClientHandler tears down: the client's socket is closed and the connection
\* is out of the table; after close() no reconnect is scheduled.
C20_ReconnectBackoff ==
  [][\A c \in DOMAIN conns :
       /\ ReconnectScheduled(c)
            => /\ conns'[c].reconnectAttempts = conns[c].reconnectAttempts + 1
               /\ conns'[c].reconnectAttempts <= MaxReconnectAttempts
               /\ conns'[c].delay = BackoffSeconds[conns'[c].reconnectAttempts]
               /\ ~conns[c].serverIsClosing
               /\ ~conns'[c].serverIsClosing
       /\ conns'[c].reconnectAttempts # conns[c].reconnectAttempts
            => ReconnectScheduled(c) \/ conns'[c].reconnectAttempts = 0
       /\ (lastOut'.from = "server-open" /\ lastOut'.connectionId = c)
            => conns'[c].reconnectAttempts = 0
       /\ AttemptsExhausted(c)
            => /\ ~conns'[c].reconnectTimer
               /\ conns'[c].serverIsClosing
               /\ conns'[c].clientWs \in {"CLOSING", "CLOSED"}
               /\ conns'[c].closeEmitted
               /\ c \notin connections']_vars

\* The step is a call of sendToServer on connection c with a ServerHandler
\* that has a socket and cannot transmit.
SendWhileNotConnected(c) ==
  /\ lastOut'.from = "send"
  /\ lastOut'.connectionId = c
  /\ conns[c].serverWs
  /\ ~IsConnected(conns[c])

\* C21: bounded queue. The queue of a ServerHandler never holds more than
\* max_queue_size messages; sendToServer while not connected puts the message
\* at the tail when there is room and puts nothing on the wire; with a full
\* queue the new message is dropped and the queue keeps its messages and
\* their order.
C21_BoundedQueue ==
  /\ [](\A c \in DOMAIN conns : Len(conns[c].messageQueue) <= MaxQueueSize)
  /\ [][\A c \in DOMAIN conns :
          SendWhileNotConnected(c)
          => /\ lastOut'.wire = NoMessage
             /\ conns'[c].messageQueue =
                  IF Len(conns[c].messageQueue) < MaxQueueSize
                  THEN Append(conns[c].messageQueue, lastOut'.handed)
                  ELSE conns[c].messageQueue]_vars

\* A send was dropped: the queue is full and the message is not at its tail.
C21_Witness ==
  \E c \in DOMAIN conns :
    /\ lastOut.from = "send"
    /\ lastOut.connectionId = c
    /\ lastOut.wire = NoMessage
    /\ Len(conns[c].messageQueue) = MaxQueueSize
    /\ conns[c].messageQueue[MaxQueueSize] # lastOut.handed
    /\ conns[c].messageQueue[1] # conns[c].messageQueue[2]

\* The code of the error response that the step wrote to the client is code.
ErrorCodeIs(code) ==
  /\ lastOut'.toClient.t = "obj"
  /\ Field(lastOut'.toClient, "error").t = "obj"
  /\ Field(Field(lastOut'.toClient, "error"), "code").t = "num"
  /\ Field(Field(lastOut'.toClient, "error"), "code").v = code

\* C22: error codes by failure class. A client frame that is not JSON is
\* answered with an error of code -32700, a parsed message that is not valid
\* JSON-RPC with code -32600, and every other error written to the client
\* (rate limit, strict-mode block, MCP server not connected) has code -32603.
C22_ErrorCodes ==
  [][\A c \in DOMAIN conns : \A data \in ClientData :
       ClientMessageStep(c, data)
       => IF data = NotJson THEN ErrorCodeIs(0 - 32700)
          ELSE IF ~ValidateJsonRpc(data) THEN ErrorCodeIs(0 - 32600)
          ELSE lastOut'.toClient.t # "none" => ErrorCodeIs(0 - 32603)]_vars

\* The string holds the code unit u.
HasUnit(s, u) == \E i \in 1..Len(s) : s[i] = u

\* C24: ANSI elimination. The output of AnsiFilter.filter of an enabled
\* filter in strip mode holds no ESC, whatever followed the ESC in the input.
C24_AnsiElimination ==
  (/\ flt.filter = "ansi"
   /\ flt.done
   /\ flt.cfg.enabled
   /\ flt.cfg.action \in {"", "strip"})
  => ~HasUnit(flt.filtered, "ESC")

\* s begins with a surrogate pair.
PairAtHead(s) ==
  /\ Len(s) >= 2
  /\ 55296 <= CharCode(s[1]) /\ CharCode(s[1]) <= 56319
  /\ 56320 <= CharCode(s[2]) /\ CharCode(s[2]) <= 57343

\* The code point of a surrogate pair.
PairCodePoint(hi, lo) == 65536 + (CharCode(hi) - 55296) * 1024 + (CharCode(lo) - 56320)

\* The code points of s that are in the allow set of cfg, in their order.
RECURSIVE AllowedCodePoints(_, _)
AllowedCodePoints(cfg, s) ==
  IF s = <<>> THEN <<>>
  ELSE IF PairAtHead(s)
  THEN (IF AllowedChar(cfg, PairCodePoint(s[1], s[2])) THEN <<s[1], s[2]>> ELSE <<>>)
         \o AllowedCodePoints(cfg, Tail(Tail(s)))
  ELSE (IF AllowedChar(cfg, CharCode(s[1])) THEN <<s[1]>> ELSE <<>>)
         \o AllowedCodePoints(cfg, Tail(s))

\* C25: whitelist closure. CharacterWhitelist.filter of an enabled filter
\* returns the code points of the input that are in the allow set (the ranges
\* without the blacklist), in their order, a surrogate pair counting as one
\* code point; violations is empty exactly when nothing was removed.
C25_WhitelistCodePoints ==
  (flt.filter = "whitelist" /\ flt.done /\ flt.cfg.enabled)
  => /\ flt.filtered = AllowedCodePoints(flt.cfg, flt.input)
     /\ (flt.violations = <<>>) = (flt.filtered = flt.input)

\* The regex of the rule finds a match somewhere in s.
Occurs(rule, s) == \E i \in 1..Len(s) : s[i] \in RuleAtoms(rule.name)

\* The names of the rules from the i-th on whose regex finds a match in s.
RECURSIVE OccurringRules(_, _, _)
OccurringRules(rules, i, s) ==
  IF i > Len(rules) THEN <<>>
  ELSE (IF Occurs(rules[i], s) THEN <<rules[i].name>> ELSE <<>>)
         \o OccurringRules(rules, i + 1, s)

\* C26: the actions of PatternMatcher.check. On the first call of a matcher,
\* allowed is false exactly when a rule with action reject matches; the
\* sanitized string is the input without the matches of the matching rules
\* with action strip; every matching rule is recorded, and a rule with action
\* log changes nothing else.
C26_CheckActions ==
  (flt.filter = "pattern" /\ flt.op = "check" /\ flt.calls = 1)
  => /\ flt.allowed = ~\E i \in 1..Len(flt.cfg.rules) :
                          /\ Occurs(flt.cfg.rules[i], flt.input)
                          /\ CompiledAction(flt.cfg.rules[i]) = "reject"
     /\ flt.filtered =
          SelectSeq(flt.input,
                    LAMBDA u : ~\E i \in 1..Len(flt.cfg.rules) :
                                  /\ CompiledAction(flt.cfg.rules[i]) = "strip"
                                  /\ u \in RuleAtoms(flt.cfg.rules[i].name))
     /\ flt.matches = OccurringRules(flt.cfg.rules, 1, flt.input)

\* C29: PatternMatcher is read-only after construction. Whatever calls of
\* match and check were made before on the matcher, match(s) of an enabled
\* matcher reports exactly the rules whose regex finds a match in s.
C29_MatchIgnoresHistory ==
  (flt.filter = "pattern" /\ flt.op = "match" /\ flt.cfg.enabled)
  => /\ flt.violations = OccurringRules(flt.cfg.rules, 1, flt.input)
     /\ flt.matched = (flt.violations # <<>>)

\* s has the format of a placeholder: MCPROXY_KEY_ and 32 upper-case hex
\* characters.
HasPlaceholderFormat(s) ==
  /\ Len(s) = 2
  /\ s[1] = "M"
  /\ \E i \in 1..Len(HexBlocks) : s[2] = HexBlocks[i]

\* C27: isPlaceholder is a structural test. isPlaceholder(s) is true exactly
\* when s has the format of a placeholder, whatever the vault holds.
C27_IsPlaceholderStructural ==
  (flt.filter = "vault" /\ flt.done) => (flt.matched = HasPlaceholderFormat(flt.input))

\* C28: the command line determines the configuration of the running proxy.
\* The server listens on --host and --port, connects to --server, has the
\* settings of the file --config and, with --strict, strict mode: a client
\* message with violations is then refused with an error and not forwarded.
C28_CliOptionsUsed ==
  /\ [](/\ lastOut.from = "listen"
           => lastOut.listen = [host |-> cli.options.host,
                                port |-> ParseInt(cli.options.port)]
        /\ lastOut.from = "accepted" => lastOut.url = cli.options.server
        /\ cli.options.strict => proxyConfig.strictMode
        /\ proxyConfig.patterns
             = LoadConfig(cli.files, ResolvePath(cli.options.config)).patterns)
  /\ [][\A c \in DOMAIN conns : \A data \in CliData :
          (/\ cli.options.strict
           /\ ClientMessageStep(c, data)
           /\ ValidateJsonRpc(data)
           /\ Sanitized(c, data).violations # <<>>)
          => /\ lastOut'.handed = NoMessage
             /\ IsErrorWith(lastOut'.toClient, Field(data, "id"), 0 - 32603,
                            "Message contains forbidden content")]_vars

\* C23: sanitization idempotence. When the message that sanitizeMessage
\* returned is sanitized again by the same Sanitizer in the same direction,
\* the message that comes out equals the one that went in.
C23_SanitizeIdempotent ==
  [][(SanSanitizeAgain /\ ~san'.threw) => san'.output = san.output]_vars

\* The text sub occurs somewhere in s.
ContainsText(s, sub) ==
  \E i \in 1..(Len(s) - Len(sub) + 1) : SubSeq(s, i, i + Len(sub) - 1) = sub

\* C30: no detected secret stays. After sanitizeMessage(m, client_to_server)
\* of a Sanitizer with api_key_protection and a connection id, no string leaf
\* of the output contains a value that detect reports for the same leaf of
\* m, also when the value occurs more than once in the leaf.
C30_NoDetectedSecretLeft ==
  [][(SanitizeStep /\ san'.direction = "client_to_server") =>
       \A i \in 1..Len(StringLeaves(san'.message)) :
         \A k \in 1..Len(Detect(StringLeaves(san'.message)[i])) :
           ~ContainsText(StringLeaves(san'.output)[i],
                         Detect(StringLeaves(san'.message)[i])[k].value)]_vars

\* The keys of every object inside a JSON value.
RECURSIVE KeysOf(_)
RECURSIVE KeysOfItems(_)
KeysOfItems(items) ==
  IF items = <<>> THEN {} ELSE KeysOf(Head(items)) \cup KeysOfItems(Tail(items))

KeysOf(obj) ==
  IF obj.t = "arr" THEN KeysOfItems(obj.v)
  ELSE IF obj.t = "obj"
  THEN {obj.v[i].k : i \in 1..Len(obj.v)} \cup KeysOfItems(EntryValues(obj.v))
  ELSE {}

\* What AnsiFilter and CharacterWhitelist of the Sanitizer leave of a text.
Filtered(s) == CharWhitelistFilter(AnsiFilter(s).filtered).filtered

\* C31: object keys are sanitized. Every key of every object in the message
\* that sanitizeMessage returns has passed AnsiFilter and CharacterWhitelist
\* unchanged, and no key that the filters reduce to the empty string is left.
C31_KeysSanitized ==
  [][SanitizeStep =>
       \A key \in KeysOf(san'.output) :
         /\ Filtered(KeyUnits(key)) # <<>>
         /\ Filtered(KeyUnits(key)) = KeyUnits(key)]_vars

\* C32: an error response carries the id of the message. Every error that
\* the proxy writes to the client for a message that had an id has that id,
\* also the ids 0 and ""; the id is null only when the message had none or
\* was no JSON.
C32_ErrorCarriesId ==
  [][\A c \in DOMAIN conns : \A data \in ClientData :
       (/\ ClientMessageStep(c, data)
        /\ lastOut'.toClient.t = "obj"
        /\ Field(lastOut'.toClient, "error").t = "obj")
       => IF Field(data, "id").t = "none"
          THEN Field(lastOut'.toClient, "id").t = "null"
          ELSE /\ Field(lastOut'.toClient, "id").t = Field(data, "id").t
               /\ Field(lastOut'.toClient, "id").v = Field(data, "id").v]_vars

\* The message has the field.
Present(message, key) == Field(message, key).t # "none"

\* C33: JSON-RPC validation on the client leg. validateJsonRpc rejects a
\* message exactly when jsonrpc is not "2.0", a method that is present is no
\* string, or method, result and error are all absent; a result or error
\* field that is present counts whatever its value.
C33_ValidationByPresence ==
  (flt.filter = "validate" /\ flt.done /\ flt.op = "validateJsonRpc")
  => flt.allowed
       = (/\ Field(flt.input, "jsonrpc").t = "str"
          /\ Field(flt.input, "jsonrpc").v = <<"2.0">>
          /\ Present(flt.input, "method") => Field(flt.input, "method").t = "str"
          /\ \/ Present(flt.input, "method")
             \/ Present(flt.input, "result")
             \/ Present(flt.input, "error"))

\* The limiter that rejects a call of checkLimit for the message: the place
\* in LimitersFor(message) of the first limiter that has no point left, or
\* one past the last.
FirstExhausted(consumed, message) ==
  LET L == LimitersFor(message)
      exhausted == {i \in 1..Len(L) : consumed[L[i]] >= proxyConfig.rateLimiting.points[L[i]]}
  IN  IF exhausted = {} THEN Len(L) + 1
      ELSE CHOOSE i \in exhausted : \A j \in exhausted : i <= j

\* C34: order of consumption. checkLimit consumes the configured limiters in
\* the order global/minute, global/hour, client/minute, client/hour,
\* method/minute, method/hour; the first one that is exhausted makes it return
\* false, no later limiter is consumed, and the points taken from the earlier
\* ones stay consumed.
C34_ConsumeInOrder ==
  [][\A message \in LimiterData :
       (flt'.calls = flt.calls + 1 /\ flt'.op = "checkLimit" /\ flt'.input = message)
       => LET L == LimitersFor(message)
              k == FirstExhausted(flt.consumed, message)
          IN  /\ flt'.allowed = (k > Len(L))
              /\ \A i \in 1..Len(L) :
                   /\ i < k => flt'.consumed[L[i]] = flt.consumed[L[i]] + 1
                   /\ i > k => flt'.consumed[L[i]] = flt.consumed[L[i]]
              /\ \A i, j \in 1..Len(L) :
                   i < j => \E x, y \in 1..Len(Buckets) :
                              x < y /\ Buckets[x] = L[i] /\ Buckets[y] = L[j]
              /\ \A b \in DOMAIN flt.consumed :
                   (\A i \in 1..Len(L) : L[i] # b) => flt'.consumed[b] = flt.consumed[b]]_vars

\* A call was throttled by the per-client limiter after it had taken a point
\* from the global one, and left the method limiter, which has points, alone.
C34_Witness ==
  /\ flt.filter = "limiter"
  /\ flt.done
  /\ ~flt.allowed
  /\ Field(flt.input, "method").v = <<"o">>
  /\ proxyConfig.rateLimiting.points["global/minute"] = 2
  /\ proxyConfig.rateLimiting.points["client/minute"] = 1
  /\ proxyConfig.rateLimiting.points["method/minute"] = 2
  /\ flt.consumed["global/minute"] = 2
  /\ flt.consumed["method/minute"] = 1

\* The errors with which handleClientMessage rejects a message.
Rejections == {"Invalid JSON format", "Invalid JSON-RPC message", "Rate limit exceeded",
               "Message contains forbidden content"}

\* out records that a message of connection c was rejected.
RejectedIn(out, c) ==
  /\ out.from = "client"
  /\ out.connectionId = c
  /\ out.toClient.t = "obj"
  /\ \E text \in Rejections :
       Field(Field(out.toClient, "error"), "message").v = <<text>>

\* The two legs of a handler: sockets, flags, queue, timers and vaults.
Legs(h) ==
  <<h.clientWs, h.isClosing, h.closeEmitted, h.serverWs, h.socket, h.connected,
    h.serverIsClosing, h.reconnectAttempts, h.reconnectTimer, h.messageQueue,
    h.clientVault, h.serverVault, h.cleanedUp>>

\* C35: a rejection preserves the connection. When handleClientMessage
\* rejects a message (no JSON, no JSON-RPC, rate limit, strict-mode block),
\* nothing is forwarded, neither leg is closed, the connection stays in the
\* table and the queue of the ServerHandler and the vaults are unchanged; the
\* handler takes the next message, and when that is valid, admitted and free
\* of violations and the MCP server is connected, it is forwarded.
C35_RejectionPreserves ==
  /\ [][\A c \in DOMAIN conns :
          RejectedIn(lastOut', c)
          => /\ lastOut'.handed = NoMessage
             /\ lastOut'.wire = NoMessage
             /\ Legs(conns'[c]) = Legs(conns[c])
             /\ c \in connections
             /\ connections' = connections
             /\ DOMAIN conns' = DOMAIN conns
             /\ \A d \in DOMAIN conns \ {c} : conns'[d] = conns[d]
             /\ <<vault, keyToPlaceholder, connectionKeys>>'
                  = <<vault, keyToPlaceholder, connectionKeys>>]_vars
  /\ [](\A c \in DOMAIN conns :
          RejectedIn(lastOut, c) => conns[c].clientWs = "OPEN" /\ ~conns[c].isClosing)
  /\ [][\A c \in DOMAIN conns : \A data \in RejectData :
          (/\ RejectedIn(lastOut, c)
           /\ ClientMessageStep(c, data)
           /\ data # NotJson
           /\ ValidateJsonRpc(data)
           /\ lastOut'.sanitized
           /\ Sanitized(c, data).violations = <<>>
           /\ IsConnected(conns[c]))
          => /\ lastOut'.handed = Sanitized(c, data).message
             /\ lastOut'.toClient = NoMessage]_vars

\* A message was just rejected by the strict-mode block on a connection whose
\* MCP server is connected.
C35_Witness ==
  /\ lastOut.connectionId \in DOMAIN conns
  /\ RejectedIn(lastOut, lastOut.connectionId)
  /\ lastOut.event.type = "sanitization_blocked"
  /\ IsConnected(conns[lastOut.connectionId])

\* The raw matches of the detector's patterns in input, as <<type, key>>.
RawMatches(input) ==
  IF input = <<>> THEN {}
  ELSE UNION {{<<DetectorPatterns[p], SubSeq(input, m.index + 1, m.index + m.length)>> :
                 m \in {ExecAll(DetectorPatterns[p], input, 1)[j] :
                          j \in DOMAIN ExecAll(DetectorPatterns[p], input, 1)}} :
               p \in DOMAIN DetectorPatterns}

\* The values that detect reported.
Reported == {flt.matches[j].value : j \in DOMAIN flt.matches}

\* The three tests of the false-positive suppression, as the specification
\* states them for a match of a type.
Passes(type, key) ==
  /\ Len(key) >= MinimumKeyLength
  /\ \/ ~FalsePositiveShape(key)
     \/ type = "aws_secret_key"
  /\ type \in DOMAIN EntropyThresholds => ~EntropyBelow(key, EntropyThresholds[type])
  /\ GenericOrPotential(type) => ~EntropyBelow(key, DefaultEntropyThreshold)

\* C36: false-positive suppression in detect. A raw pattern match is reported
\* if and only if it has at least min_key_length characters, has no
\* false-positive shape (AWS-secret-shape matches are exempt from that test)
\* and, for a type with a threshold, its entropy is not below the threshold.
C36_FalsePositiveSuppression ==
  (flt.filter = "detector" /\ flt.done)
  => \A r \in RawMatches(flt.input) :
       (r[2] \in Reported) <=> (\E q \in RawMatches(flt.input) : q[2] = r[2] /\ Passes(q[1], q[2]))

\* C37: hex-based types skip the entropy test and the letter-case tests.
\* Every match of a Datadog pattern with at least min_key_length characters
\* is reported by detect, whatever its entropy.
C37_HexTypesAlwaysReported ==
  (flt.filter = "detector" /\ flt.done)
  => \A r \in RawMatches(flt.input) :
       (r[1] \in HexBasedTypes /\ Len(r[2]) >= MinimumKeyLength) => r[2] \in Reported

\* Two JSON values differ in their string leaves at most: the same non-string
\* leaves at the same paths, arrays of the same length, objects with the same
\* keys in the same order.
RECURSIVE SameButStrings(_, _)
SameButStrings(a, b) ==
  /\ a.t = b.t
  /\ a.t \in {"arr", "obj"} => Len(a.v) = Len(b.v)
  /\ CASE a.t = "str" -> TRUE
       [] a.t = "arr" -> \A i \in 1..Len(a.v) : SameButStrings(a.v[i], b.v[i])
       [] a.t = "obj" -> \A i \in 1..Len(a.v) :
                           a.v[i].k = b.v[i].k /\ SameButStrings(a.v[i].v, b.v[i].v)
       [] OTHER -> a.v = b.v

\* C38: sanitizeMessage changes only string leaves. Every number, boolean
\* and null of the message is in the returned message at the same path,
\* arrays keep their length and order, and the message that was passed is as
\* it was.
C38_OnlyStringLeavesChange ==
  [][(SanitizeStep /\ ~san'.threw) => SameButStrings(san'.message, san'.output)]_vars

\* C39: vault index consistency. After any calls of storeKey, retrieveKey,
\* removeKey, removeConnectionKeys and cleanupExpiredKeys, with encryption
\* enabled or disabled, a placeholder has a record exactly when it is in the
\* placeholder set of the record's connection, no set is empty, and
\* keyToPlaceholder has an entry for a placeholder exactly when that
\* placeholder has a record.
C39_IndexesAgree ==
  /\ \A p \in DOMAIN vault :
       /\ MapHas(connectionKeys, vault[p].connectionId)
       /\ p \in connectionKeys[vault[p].connectionId]
  /\ \A c \in DOMAIN connectionKeys :
       /\ connectionKeys[c] # {}
       /\ \A p \in connectionKeys[c] : MapHas(vault, p) /\ vault[p].connectionId = c
  /\ \A k \in DOMAIN keyToPlaceholder : MapHas(vault, keyToPlaceholder[k])
  /\ \A p \in DOMAIN vault : \E k \in DOMAIN keyToPlaceholder : keyToPlaceholder[k] = p

\* C40: after ServerHandler.close() the leg stays closed. In every later
\* state it is not connected, its queue is empty, nothing is written to the
\* MCP server, no reconnect is attempted, and no WebSocket that the leg opened
\* is open or connecting, also when close() came during a connection attempt
\* or with a reconnect timer pending.
C40_ClosedStaysClosed ==
  /\ [](\A c \in DOMAIN conns :
          conns[c].serverIsClosing
          => /\ ~conns[c].connected
             /\ conns[c].messageQueue = <<>>
             /\ lastOut.connectionId = c => lastOut.wire = NoMessage
             /\ conns[c].socket \notin {"CONNECTING", "OPEN"})
  /\ [][\A c \in DOMAIN conns :
          conns[c].serverIsClosing
          => /\ conns'[c].serverIsClosing
             /\ conns'[c].socket = "CONNECTING" => conns[c].socket = "CONNECTING"
             /\ conns'[c].reconnectTimer => conns[c].reconnectTimer
             /\ conns'[c].reconnectAttempts <= conns[c].reconnectAttempts]_vars
====
